---- MODULE Spec2Model ----
(***************************************************************************)
(* Context/Intelligence Engine of resq (modules/context_engine.py):        *)
(* source connectors, chunking, ingestion into the vector collection and   *)
(* retrieval with client-side country filtering.                           *)
(*                                                                         *)
(* The vector database (cortex client), the HTTP feeds and the embedding   *)
(* provider are external.  They are modelled at their interface: every     *)
(* call either succeeds with its documented effect or raises and leaves    *)
(* the collection as it was.                                               *)
(***************************************************************************)
EXTENDS Integers, Sequences, FiniteSets, TLC

\* ------------------------------------------------------------------ bounds
MaxCalls == 3        \* ingest_country calls made one after the other
MaxConcCalls == 2    \* ingest_country calls when they may interleave
MaxTexts == 2        \* chunks handed to one ingest_intelligence call
LongBody == 600      \* token count of a body longer than one chunk window
MaxRows  == 3        \* rows of the collection a retrieval starts from
MaxTopK  == 2        \* largest top_k a retrieval is asked for
MaxChunks == 2       \* chunks handed to synthesize_briefing
MaxCities == 2       \* cities of a well-formed assessment text
MaxTokens == 6       \* tokens of a text handed to chunk_text
MaxWindow == 3       \* largest max_tokens handed to chunk_text
MaxItems == 6        \* items of the longest connector result merged

\* ------------------------------------------------------- program constants
CHUNK_MAX_TOKENS     == 500
CHUNK_OVERLAP_TOKENS == 50
SEARCH_CAP           == 200

Slots == {1, 2}      \* coroutines of the one event loop

\* Countries: "Sudan" is in the ISO3 and State Dept code tables,
\* "Atlantis" is in neither.
Countries == {"Sudan", "Atlantis"}
Cities    == {"", "Khartoum"}

\* _country_to_iso3 / _country_to_state_dept_code: TRUE when a code is found
country_to_iso3(country) == country = "Sudan"
country_to_state_dept_code(country) == country = "Sudan"

\* ============================================================ SECTION 1
\* Source connectors.  A connector issues a fixed sequence of HTTP requests;
\* each response is one of these kinds:
\*   item, long_item : well-formed, one qualifying item (short / long body)
\*   empty           : well-formed, no qualifying item
\*   http_error      : httpx.HTTPError (transport error, timeout, 4xx/5xx)
\*   bad_body        : status 200 with a body that does not parse
\*   bad_shape       : parses, but not the shape the connector indexes into
Kinds == {"item", "long_item", "empty", "http_error", "bad_body", "bad_shape"}

AllConnectors ==
    {"fetch_gdacs_alerts", "fetch_hdx_reports", "fetch_travel_advisory",
     "fetch_hapi_data", "fetch_news", "fetch_city_news", "fetch_gdacs_nearby"}

\* number of requests the connector sends for (country, city)
NumRequests(c, country, city) ==
    CASE c = "fetch_gdacs_alerts"    -> 1
      [] c = "fetch_hdx_reports"     -> 4
      [] c = "fetch_travel_advisory" ->
            IF country_to_state_dept_code(country) THEN 2 ELSE 1
      [] c = "fetch_hapi_data"       ->
            IF country_to_iso3(country) THEN 2 ELSE 0
      [] c = "fetch_news"            -> 3
      [] c = "fetch_city_news"       -> IF city = "" THEN 0 ELSE 2
      [] c = "fetch_gdacs_nearby"    -> 1

\* cap on the items a connector collects (max_articles, nearby[:5]); 0 = none
ItemCap(c) ==
    CASE c = "fetch_news"         -> 10
      [] c = "fetch_city_news"    -> 5
      [] c = "fetch_gdacs_nearby" -> 5
      [] OTHER                    -> 0

IsItem(kind) == kind \in {"item", "long_item"}

\* What the connector's code does with the i-th response:
\*   "add"   an item is appended
\*   "skip"  nothing is appended (no match, or the exception is caught)
\*   "raise" an exception the connector does not catch
gdacs_OnResponse(kind) == IF IsItem(kind) THEN "add" ELSE "skip"

news_OnResponse(kind) == IF IsItem(kind) THEN "add" ELSE "skip"

hdx_OnResponse(kind) ==
    CASE IsItem(kind)           -> "add"
      [] kind = "empty"         -> "skip"
      [] kind = "http_error"    -> "skip"
      [] kind = "bad_body"      -> "raise"   \* resp.json(): ValueError
      [] kind = "bad_shape"     -> "raise"   \* data.get: AttributeError

travel_OnResponse(i, kind, country) ==
    IF i = 1
    THEN CASE IsItem(kind) ->
                 IF country_to_state_dept_code(country) THEN "add" ELSE "skip"
           [] kind = "empty"      -> "skip"
           [] kind = "http_error" -> "skip"
           [] kind = "bad_body"   -> "raise"  \* resp.json(): ValueError
           [] kind = "bad_shape"  -> "raise"  \* adv.get: AttributeError
    ELSE CASE IsItem(kind)        -> "add"
           [] kind = "empty"      -> "skip"
           [] kind = "http_error" -> "skip"
           [] kind = "bad_body"   -> "raise"  \* resp.json(): ValueError
           [] kind = "bad_shape"  -> "skip"   \* isinstance guards

hapi_OnResponse(kind) ==
    CASE IsItem(kind)           -> "add"
      [] kind = "empty"         -> "skip"
      [] kind = "http_error"    -> "skip"
      [] kind = "bad_body"      -> "raise"   \* resp.json(): ValueError
      [] kind = "bad_shape"     -> "raise"   \* .get on a non-dict

OnResponse(c, i, kind, country) ==
    CASE c \in {"fetch_gdacs_alerts", "fetch_gdacs_nearby"} -> gdacs_OnResponse(kind)
      [] c \in {"fetch_news", "fetch_city_news"}           -> news_OnResponse(kind)
      [] c = "fetch_hdx_reports"                             -> hdx_OnResponse(kind)
      [] c = "fetch_travel_advisory" -> travel_OnResponse(i, kind, country)
      [] c = "fetch_hapi_data"                               -> hapi_OnResponse(kind)

BodyLen(kind) == IF kind = "long_item" THEN LongBody ELSE 1

\* The connector's request loop over the responses `kinds`, from request i
\* with `items` collected so far.  Result: raised (an exception left the
\* connector), failed (some request did not yield a well-formed response),
\* items (the body lengths, in tokens, of the items returned).
RECURSIVE RunFrom(_, _, _, _, _, _)
RunFrom(c, kinds, country, i, items, failed) ==
    IF i > Len(kinds) \/ (ItemCap(c) > 0 /\ Len(items) >= ItemCap(c))
    THEN [raised |-> FALSE, failed |-> failed, items |-> items]
    ELSE LET h    == OnResponse(c, i, kinds[i], country)
             bad  == kinds[i] \in {"http_error", "bad_body", "bad_shape"}
         IN  IF h = "raise"
             THEN [raised |-> TRUE, failed |-> TRUE, items |-> <<>>]
             ELSE RunFrom(c, kinds, country, i + 1,
                          IF h = "add" THEN Append(items, BodyLen(kinds[i]))
                                       ELSE items,
                          failed \/ bad)

RunConnector(c, kinds, country) == RunFrom(c, kinds, country, 1, <<>>, FALSE)

ResponseSeqs(c, country, city) == [1..NumRequests(c, country, city) -> Kinds]


\* outcomes a connector can produce for a country (city-less call), over
\* every sequence of responses
OutcomeTable ==
    [c \in AllConnectors |->
        [country \in Countries |->
            {RunConnector(c, ks, country) : ks \in ResponseSeqs(c, country, "")}]]

\* ============================================================ SECTION 2
\* chunk_text: windows [start, end) over a body of N tokens
Min(a, b) == IF a < b THEN a ELSE b

RECURSIVE ChunkWindows(_, _, _, _)
ChunkWindows(start, N, max_tokens, overlap) ==
    IF start >= N
    THEN <<>>
    ELSE <<[start |-> start, end |-> Min(start + max_tokens, N)]>>
         \o ChunkWindows(start + (max_tokens - overlap), N, max_tokens, overlap)

\* number of chunks chunk_text(body) returns with the default window
chunk_text(N) == Len(ChunkWindows(0, N, CHUNK_MAX_TOKENS, CHUNK_OVERLAP_TOKENS))

RECURSIVE SumChunks(_)
SumChunks(items) ==
    IF items = <<>> THEN 0 ELSE chunk_text(Head(items)) + SumChunks(Tail(items))

\* ============================================================ SECTION 4
VARIABLES
    has_key,     \* OPENROUTER_API_KEY is set
    exists,      \* the collection safety_intelligence exists
    rows,        \* id -> [country, content, vector] of the collection
    next_id,     \* module-level _next_id
    started,     \* ingest_country calls started so far
    call,        \* per coroutine slot: the ingest_country call it runs
    fetched,     \* connector -> outcome of a stand-alone connector call
    brief,       \* the get_safety_brief call
    report,      \* the get_safety_report call
    synth,       \* the synthesize_briefing call
    parse,       \* the _parse_response call
    crisis,      \* the get_crises_for_country call
    embed,       \* the embed_texts call
    chunk,       \* the chunk_text call
    merge        \* the chunk list get_safety_report assembles

vars == <<has_key, exists, rows, next_id, started, call, fetched, brief,
          report, synth, parse, crisis, embed, chunk, merge>>

\* the calls outside ingestion and retrieval
rest == <<report, synth, parse, crisis, embed, chunk, merge>>

IdleReport ==
    [pc |-> "idle", country |-> "", city |-> "", known |-> FALSE,
     rag |-> 0, status |-> "", local |-> <<>>, live |-> <<>>,
     chunks |-> 0, result |-> "", log |-> <<>>]

IdleSynth ==
    [pc |-> "idle", chunks |-> <<>>, responses |-> <<>>, sent |-> 0,
     slept |-> <<>>, generated |-> "None", raised |-> FALSE,
     out |-> [header |-> "", body |-> "", sections |-> <<>>]]
IdleParse ==
    [pc |-> "idle", family |-> "", wrap |-> "", cut |-> 0, raw |-> <<>>,
     given |-> <<>>,
     out |-> [raised |-> FALSE, stage |-> "", cities |-> <<>>]]
IdleCrisis ==
    [pc |-> "idle", country |-> <<>>,
     cache |-> [k \in {"sudan", "ukraine"} |-> [kind |-> "absent", age |-> 0]],
     outcome |-> "", value |-> "", provider_calls |-> 0, cache_writes |-> 0]
IdleMerge ==
    [pc |-> "idle", rag |-> 0, sizes |-> <<>>, called |-> FALSE,
     passed |-> <<>>, prompt |-> <<>>]
IdleChunk ==
    [pc |-> "idle", N |-> 0, max_tokens |-> 0, overlap |-> 0, start |-> 0,
     windows |-> <<>>, odd |-> FALSE]
IdleEmbed ==
    [pc |-> "idle", n |-> 0, attempt |-> 0, sent |-> 0, slept |-> <<>>,
     responses |-> <<>>, outcome |-> "", error |-> "", vectors |-> <<>>]

RestIdle ==
    /\ report = IdleReport
    /\ synth = IdleSynth
    /\ parse = IdleParse
    /\ crisis = IdleCrisis
    /\ embed = IdleEmbed
    /\ chunk = IdleChunk
    /\ merge = IdleMerge

NoRows == [i \in {} |-> 0]

IdleCall ==
    [pc |-> "idle", seqno |-> 0, country |-> "", texts |-> <<>>,
     connFailed |-> FALSE, fetchedChunks |-> 0, log |-> <<>>, upserts |-> <<>>, result |-> 0,
     pre |-> NoRows, emb |-> "none", base |-> 0]

Count(r) == Cardinality(DOMAIN r)

\* embedding of one text: the provider's vector, or the zero vector
Embedding(text, mode) == [zero |-> mode = "zero", of |-> text]

\* the records a batch_upsert of `texts` at ids base.. writes
Batch(base, country, texts, mode) ==
    [i \in base .. (base + Len(texts) - 1) |->
        [country |-> country, content |-> texts[i - base + 1],
         vector  |-> Embedding(texts[i - base + 1], mode)]]

\* batch_upsert: insert or overwrite by id
Upsert(r, batch) ==
    [i \in DOMAIN r \cup DOMAIN batch |->
        IF i \in DOMAIN batch THEN batch[i] ELSE r[i]]

\* init_db(client): has_collection, then create_collection when absent;
\* every exception is swallowed.  st = [exists, rows, next_id].  The client
\* is the one ingest_intelligence hands in (line 877), so close_after keeps
\* its initial False (lines 803-806) and the finally closes nothing.
init_db(st, hasOk, createOk) ==
    LET close_after == FALSE
        finally(ops) == IF close_after THEN Append(ops, "close") ELSE ops
    IN
    IF ~hasOk THEN [st |-> st, ops |-> finally(<<"has_collection">>)]
    ELSE IF st.exists THEN [st |-> st, ops |-> finally(<<"has_collection">>)]
    ELSE [st  |-> IF createOk THEN [st EXCEPT !.exists = TRUE, !.rows = NoRows]
                              ELSE st,
          ops |-> finally(<<"has_collection", "create_collection">>)]

InitDbOutcomes(st) ==
    { init_db(st, hasOk, createOk) : hasOk, createOk \in BOOLEAN }

\* _next_id = client.count(...), 0 when count raises
ReadCount(st, countOk) ==
    IF st.exists /\ countOk THEN Count(st.rows) ELSE 0

\* delete_collection: the collection and every record in it are gone
Dropped_kept(st) == [st EXCEPT !.exists = FALSE]

Dropped(st) == [st EXCEPT !.exists = FALSE, !.rows = NoRows]

\* _recreate_collection(client); mode is the first call that raises, or "ok"
recreate_collection(st, mode) ==
    IF mode = "has_fail"
    THEN [ok |-> FALSE, st |-> st, ops |-> <<"has_collection">>]
    ELSE IF st.exists /\ mode = "delete_fail"
    THEN [ok |-> FALSE, st |-> st,
          ops |-> <<"has_collection", "delete_collection">>]
    ELSE LET dropped == Dropped(st)
             ops1 == IF st.exists
                     THEN <<"has_collection", "delete_collection">>
                     ELSE <<"has_collection">>
         IN  IF mode = "create_fail"
             THEN [ok |-> FALSE, st |-> dropped,
                   ops |-> ops1 \o <<"create_collection">>]
             ELSE [ok |-> TRUE, st |-> [dropped EXCEPT !.exists = TRUE],
                   ops |-> ops1 \o <<"create_collection">>]



Store == [exists |-> exists, rows |-> rows, next_id |-> next_id]

SetStore(st) ==
    /\ exists'  = st.exists
    /\ rows'    = st.rows
    /\ next_id' = st.next_id

SetCall(p, c) == call' = [call EXCEPT ![p] = c]

\* range(base, base + n)
IdRange(base, n) == base .. (base + n - 1)

\* The id base of the first batch_upsert: the module-level _next_id as it is
\* when embed_texts has returned (line 889), not the value this call read
\* from count before the await (kept in c.base).
IdBase_local(st, c) == c.base
IdBase(st, c) == st.next_id

\* The id base of the retried batch_upsert (lines 910-911)
RetryBase_stale(st, c) == c.base
RetryBase(st, c) == 0

\* Outcomes the store allows: an operation on a missing collection raises,
\* any operation may raise (transport error, corrupted collection).
MayUpsert(st) == IF st.exists THEN BOOLEAN ELSE {FALSE}
MayCount(st)  == IF st.exists THEN BOOLEAN ELSE {FALSE}
RecreateModes(st) ==
    IF st.exists THEN {"ok", "has_fail", "delete_fail", "create_fail"}
                 ELSE {"ok", "has_fail", "create_fail"}
EmbedOutcomes == {"ok", "raise"}

\* finally of ingest_intelligence (lines 929-930): the client is closed
\* however the try block was left
Finally_tryend(l) ==
    IF l[Len(l)] \in {"embed_raise", "recreate_raise"} THEN l
    ELSE Append(l, "close")

Finally(l) == Append(l, "close")

\* ingest_intelligence from the return of embed_texts to its own return
\* (lines 886-930), on store st for the call record c; emb is how
\* embed_texts ended.
IngestUpsert(p, st, c, emb) ==
    LET n == Len(c.texts) IN
    IF emb = "raise"
    THEN /\ SetStore(st)
         /\ SetCall(p, [c EXCEPT !.pc = "done", !.result = 0, !.emb = emb,
                          !.log = Finally(@ \o <<"embed_raise">>)])
    ELSE
    \E ok1 \in MayUpsert(st) :
    LET base1 == IdBase(st, c)
        ids1 == IdRange(base1, n)
        c1   == [c EXCEPT !.emb = emb,
                   !.log = @ \o <<"embed_return", "ids", "batch_upsert">>,
                   !.upserts = Append(@, [ids |-> ids1, ok |-> ok1])]
    IN
    IF ok1
    THEN /\ SetStore([st EXCEPT
                 !.rows = Upsert(@, Batch(base1, c.country, c.texts, emb)),
                 !.next_id = @ + n])
         /\ SetCall(p, [c1 EXCEPT !.pc = "done", !.result = n,
                           !.log = Finally(@)])
    ELSE
    \E rec \in RecreateModes(st) :
    LET r == recreate_collection(st, rec) IN
    IF ~r.ok
    THEN /\ SetStore(r.st)
         /\ SetCall(p, [c1 EXCEPT !.pc = "done", !.result = 0,
                           !.log = Finally(@ \o r.ops \o <<"recreate_raise">>)])
    ELSE
    \E ok2 \in MayUpsert(r.st) :
    LET base2 == RetryBase(r.st, c)
        ids2 == IdRange(base2, n)
        c2   == [c1 EXCEPT
                   !.log = @ \o r.ops \o <<"ids", "batch_upsert">>,
                   !.upserts = Append(@, [ids |-> ids2, ok |-> ok2])]
    IN
    IF ok2
    THEN /\ SetStore([r.st EXCEPT
                 !.rows = Upsert(@, Batch(base2, c.country, c.texts, emb)),
                 !.next_id = base2 + n])
         /\ SetCall(p, [c2 EXCEPT !.pc = "done", !.result = n,
                           !.log = Finally(@)])
    ELSE /\ SetStore([r.st EXCEPT !.next_id = base2])
         /\ SetCall(p, [c2 EXCEPT !.pc = "done", !.result = 0,
                           !.log = Finally(@)])

Free(q) == call[q].pc \in {"idle", "done", "raised", "past"}

\* What is kept of a call that returned before the next one starts: its
\* number, what it returned and the ids it upserted.
Past(c) ==
    [IdleCall EXCEPT !.pc = "past", !.seqno = c.seqno, !.result = c.result,
                     !.upserts = c.upserts]

\* ingest_country is called: the five connector coroutines are handed to
\* asyncio.gather and the caller suspends (line 1170).  The call takes the
\* free slot whose previous call is the oldest.
IngestCountry(p, limit, countries) ==
    /\ Free(p)
    /\ \A q \in Slots : Free(q) =>
          \/ call[p].seqno < call[q].seqno
          \/ call[p].seqno = call[q].seqno /\ p <= q
    /\ started < limit
    /\ \E country \in countries :
          call' = [q \in Slots |->
                     IF q = p
                     THEN [IdleCall EXCEPT !.pc = "gather",
                             !.seqno = started + 1, !.country = country,
                             !.pre = rows, !.log = <<"gather">>]
                     ELSE IF call[q].pc \in {"done", "raised"}
                     THEN Past(call[q])
                     ELSE call[q]]
    /\ started' = started + 1
    /\ UNCHANGED <<has_key, exists, rows, next_id, fetched, brief, rest>>

IngestConnectors ==
    <<"fetch_gdacs_alerts", "fetch_hdx_reports", "fetch_travel_advisory",
      "fetch_hapi_data", "fetch_news">>

\* combined = gdacs_alerts + hdx_reports + state_reports + hapi + news
Combined(outs) ==
    outs[1].items \o outs[2].items \o outs[3].items \o outs[4].items
    \o outs[5].items

\* `not x` on a list
IsEmptyList_never(xs) == FALSE
IsEmptyList(xs) == Len(xs) = 0

TextList(seqno, items) == [k \in 1..SumChunks(items) |-> [call |-> seqno, k |-> k]]

\* What asyncio.gather over the five connectors hands back, for every
\* combination of connector outcomes whose chunks fit the bound:
\*   raised  some connector raised (gather re-raises it in ingest_country)
\*   failed  some connector failed in some way (raised, or swallowed an error)
\*   items   the items the connectors returned, in gather order
GatherTable ==
    [country \in Countries |->
        LET T(i) == { o \in OutcomeTable[IngestConnectors[i]][country] :
                        SumChunks(o.items) <= MaxTexts }
        IN  { [raised |-> \E i \in 1..5 : outs[i].raised,
               failed |-> \E i \in 1..5 : outs[i].failed,
               items  |-> Combined(outs)] :
              outs \in { o \in T(1) \X T(2) \X T(3) \X T(4) \X T(5) :
                           SumChunks(Combined(o)) <= MaxTexts } }]

\* ingest_country resumes after gather (lines 1177-1198) and runs
\* ingest_intelligence up to its await of embed_texts (lines 865-886).
\* Without an API key embed_texts returns zero vectors without suspending,
\* so the call runs on to its return in the same step.
IngestGathered(p) ==
    /\ call[p].pc = "gather"
    /\ UNCHANGED <<has_key, started, fetched, brief, rest>>
    /\ \E g \in GatherTable[call[p].country] :
        LET c0    == [call[p] EXCEPT !.connFailed = g.failed,
                                     !.fetchedChunks = SumChunks(g.items)]
            texts == TextList(c0.seqno, g.items)
            c1    == [c0 EXCEPT !.texts = texts, !.log = @ \o <<"chunk_text">>]
        IN
        IF g.raised
        THEN /\ SetCall(p, [c0 EXCEPT !.pc = "raised"])
             /\ UNCHANGED <<exists, rows, next_id>>
        ELSE IF IsEmptyList(g.items)
        THEN /\ SetCall(p, [c0 EXCEPT !.pc = "done", !.result = 0])
             /\ UNCHANGED <<exists, rows, next_id>>
        ELSE IF IsEmptyList(texts)
        THEN /\ SetCall(p, [c1 EXCEPT !.pc = "done", !.result = 0])
             /\ UNCHANGED <<exists, rows, next_id>>
        ELSE
        \E openOk \in BOOLEAN :
        IF ~openOk
        THEN /\ SetCall(p, [c1 EXCEPT !.pc = "done", !.result = 0,
                              !.log = @ \o <<"get_cortex_client">>])
             /\ UNCHANGED <<exists, rows, next_id>>
        ELSE
        \E db \in InitDbOutcomes(Store) :
        \E countOk \in MayCount(db.st) :
        LET st  == [db.st EXCEPT !.next_id = ReadCount(db.st, countOk)]
            c2  == [c1 EXCEPT !.base = st.next_id,
                        !.log = @ \o <<"get_cortex_client">> \o db.ops
                        \o <<IF countOk THEN "count" ELSE "count_raise",
                             "embed_texts">>]
        IN  IF has_key
            THEN /\ SetStore(st)
                 /\ SetCall(p, [c2 EXCEPT !.pc = "embed"])
            ELSE IngestUpsert(p, st, c2, "zero")

\* embed_texts returns or raises and ingest_intelligence runs to its return
IngestEmbedded(p) ==
    /\ call[p].pc = "embed"
    /\ UNCHANGED <<has_key, started, fetched, brief, rest>>
    /\ \E emb \in EmbedOutcomes : IngestUpsert(p, Store, call[p], emb)

\* ------------------------------------------------------------------------
\* A connector called on its own: fetched records the call and how it ended.
NotFetched ==
    [conn |-> "", country |-> "", city |-> "", kinds |-> <<>>,
     raised |-> FALSE, failed |-> FALSE, items |-> <<>>]

FetchConnector(c) ==
    /\ fetched.conn = ""
    /\ \E country \in Countries : \E city \in Cities :
       \E ks \in ResponseSeqs(c, country, city) :
          LET out == RunConnector(c, ks, country)
          IN  fetched' = [conn |-> c, country |-> country, city |-> city,
                          kinds |-> ks, raised |-> out.raised,
                          failed |-> out.failed, items |-> out.items]
    /\ UNCHANGED <<has_key, exists, rows, next_id, started, call, brief, rest>>

\* ============================================================ SECTION 4c
\* get_safety_brief(country, query, top_k)
EmptyText == [call |-> 0, k |-> 0]      \* the empty string
NoCountry == "<none>"                   \* payload None, or without "country"

\* The client-side country filter (lines 969-976) from result i on.
\* results is the sequence of rows search returned, in similarity order.
RECURSIVE CountryFilter_any(_, _, _, _, _)
CountryFilter_any(results, i, country, top_k, contents) ==
    IF i > Len(results) THEN contents
    ELSE LET got == IF results[i].content # EmptyText
                    THEN Append(contents, results[i].content) ELSE contents
         IN  IF Len(got) >= top_k
             THEN got
             ELSE CountryFilter_any(results, i + 1, country, top_k, got)

RECURSIVE CountryFilter(_, _, _, _, _)
CountryFilter(results, i, country, top_k, contents) ==
    IF i > Len(results) THEN contents
    ELSE LET r == results[i] IN
         IF r.country # NoCountry /\ r.country = country
         THEN LET got == IF r.content # EmptyText
                         THEN Append(contents, r.content) ELSE contents
              IN  IF Len(got) >= top_k
                  THEN got
                  ELSE CountryFilter(results, i + 1, country, top_k, got)
         ELSE CountryFilter(results, i + 1, country, top_k, contents)

IdleBrief ==
    [pc |-> "idle", country |-> "", top_k |-> 0, total |-> 0,
     results |-> <<>>, contents |-> <<>>, status |-> "", log |-> <<>>]

\* injective sequences of length n over the ids of r: the orders in which
\* search can rank n rows
Rankings(r, n) ==
    { f \in [1..n -> DOMAIN r] : \A i, j \in 1..n : i # j => f[i] # f[j] }

\* finally of get_safety_brief (lines 990-992): the client is closed when
\* there is one
BriefFinally(l, client) == IF client THEN Append(l, "close") ELSE l

\* get_safety_brief up to its await of embed_text (lines 949-958)
GetSafetyBriefFor(countries, top_ks) ==
    /\ brief.pc = "idle"
    /\ UNCHANGED <<has_key, exists, rows, next_id, started, call, fetched, rest>>
    /\ \E country \in countries : \E top_k \in top_ks :
       \E openOk \in BOOLEAN :
        LET b0 == [brief EXCEPT !.country = country, !.top_k = top_k,
                                !.log = <<"get_cortex_client">>]
        IN
        IF ~openOk
        THEN brief' = [b0 EXCEPT !.pc = "done",
                                 !.status = "Actian VectorAI offline",
                                 !.log = BriefFinally(@, FALSE)]
        ELSE
        \E countOk \in MayCount(Store) :
        IF ~countOk
        THEN brief' = [b0 EXCEPT !.pc = "done", !.status = "Actian error",
                                 !.log = BriefFinally(@ \o <<"count_raise">>, TRUE)]
        ELSE IF Count(rows) = 0
        THEN brief' = [b0 EXCEPT !.pc = "done", !.status = "No data in DB",
                                 !.log = BriefFinally(@ \o <<"count">>, TRUE)]
        ELSE brief' = [b0 EXCEPT !.pc = "embed", !.total = Count(rows),
                                 !.log = @ \o <<"count", "embed_text">>]

GetSafetyBrief == GetSafetyBriefFor(Countries, 0..MaxTopK)

\* embed_text: without a key the zero vector is returned and no request is
\* sent; with a key the request succeeds (TRUE) or raises (FALSE)
EmbedTextOutcomes(key) == IF key THEN BOOLEAN ELSE {TRUE}

\* embed_text returns or raises; search, filter, return (lines 958-992)
BriefEmbedded ==
    /\ brief.pc = "embed"
    /\ UNCHANGED <<has_key, exists, rows, next_id, started, call, fetched, rest>>
    /\ \E embOk \in EmbedTextOutcomes(has_key) : \E searchOk \in BOOLEAN :
        IF ~embOk
        THEN brief' = [brief EXCEPT !.pc = "done", !.status = "Actian error",
                                    !.log = BriefFinally(@ \o <<"embed_raise">>, TRUE)]
        ELSE IF ~(exists /\ searchOk)
        THEN brief' = [brief EXCEPT !.pc = "done", !.status = "Actian error",
                          !.log = BriefFinally(@ \o <<"embed_return", "search_raise">>, TRUE)]
        ELSE
        LET search_k == Min(brief.total, SEARCH_CAP) IN
        \E rk \in Rankings(rows, Min(search_k, Count(rows))) :
        LET results  == [i \in DOMAIN rk |->
                            [id |-> rk[i], country |-> rows[rk[i]].country,
                             content |-> rows[rk[i]].content]]
            contents == CountryFilter(results, 1, brief.country,
                                      brief.top_k, <<>>)
        IN  brief' = [brief EXCEPT !.pc = "done", !.results = results,
                        !.contents = contents,
                        !.status = IF IsEmptyList(contents)
                                   THEN "No safety context found in DB"
                                   ELSE "Actian VectorAI RAG",
                        !.log = BriefFinally(@ \o <<"embed_return", "search">>, TRUE)]

Quiet == \A q \in Slots : Free(q)

Init ==
    /\ has_key \in BOOLEAN
    /\ exists = FALSE
    /\ rows = NoRows
    /\ next_id = 0
    /\ started = 0
    /\ call = [p \in Slots |-> IdleCall]
    /\ fetched = NotFetched
    /\ brief = IdleBrief
    /\ RestIdle

\* ingest_country calls one after the other
Next ==
    \E p \in Slots :
        \/ Quiet /\ IngestCountry(p, MaxCalls, Countries)
        \/ IngestGathered(p)
        \/ IngestEmbedded(p)

Spec == Init /\ [][Next]_vars

\* ingest_country calls for one country interleaving at their await points
NextConc ==
    \E p \in Slots :
        \/ IngestCountry(p, MaxConcCalls, {"Sudan"})
        \/ IngestGathered(p)
        \/ IngestEmbedded(p)

SpecConc == Init /\ [][NextConc]_vars


\* ------------------------------------------------------------------------
\* Connectors called on their own
InitConn ==
    /\ has_key = TRUE
    /\ exists = FALSE
    /\ rows = NoRows
    /\ next_id = 0
    /\ started = 0
    /\ call = [p \in Slots |-> IdleCall]
    /\ fetched = NotFetched
    /\ brief = IdleBrief
    /\ RestIdle

NextConn == \E c \in AllConnectors : FetchConnector(c)

SpecConn == InitConn /\ [][NextConn]_vars

\* ------------------------------------------------------------------------
\* Retrieval from a collection of up to MaxRows rows.  The rows are those an
\* ingestion wrote (country and non-empty content) and rows written by
\* others: another spelling of the country, no payload, empty content.
StoreCountries == {"Sudan", "sudan", NoCountry}

StoredRow(i, country, empty) ==
    LET text == IF empty THEN EmptyText ELSE [call |-> 1, k |-> i + 1]
    IN  [country |-> country, content |-> text,
         vector |-> Embedding(text, "ok")]

Collections ==
    UNION { [0..(n - 1) -> { [country |-> c, empty |-> e] :
                               c \in StoreCountries, e \in BOOLEAN }] :
            n \in 0..MaxRows }

InitBrief ==
    /\ has_key \in BOOLEAN
    /\ exists = TRUE
    /\ \E col \in Collections :
          rows = [i \in DOMAIN col |-> StoredRow(i, col[i].country, col[i].empty)]
    /\ next_id = 0
    /\ started = 0
    /\ call = [p \in Slots |-> IdleCall]
    /\ fetched = NotFetched
    /\ brief = IdleBrief
    /\ RestIdle

NextBrief == GetSafetyBrief \/ BriefEmbedded

SpecBrief == InitBrief /\ [][NextBrief]_vars


\* ======================================================================
\* get_safety_report(lat, lng)
\* ======================================================================
\* what _coords_to_location resolves: a city in a country, a country alone,
\* nothing (open sea, or the geocoder failed: every field "")
Locations ==
    { [country |-> "Sudan", city |-> "Khartoum"],
      [country |-> "Sudan", city |-> ""],
      [country |-> "",      city |-> ""] }

ReportCountries == {"Sudan", "Unknown"}

LocalConnectors == <<"fetch_city_news", "fetch_gdacs_nearby", "fetch_news">>

LiveConnectors ==
    <<"fetch_gdacs_alerts", "fetch_hdx_reports", "fetch_travel_advisory",
      "fetch_hapi_data">>

\* items of a connector result that get_safety_report uses (the [:5], [:3])
ReportSlice(c) ==
    IF c \in {"fetch_gdacs_nearby", "fetch_hapi_data"} THEN 3 ELSE 5

\* outcomes of connector c as get_safety_report sees them: raised, and the
\* number of bodies taken from the returned list
ReportTable ==
    [c \in AllConnectors |->
        [country \in ReportCountries |->
            [city \in Cities |->
                { [raised |-> o.raised,
                   n |-> Min(Len(o.items), ReportSlice(c))] :
                  o \in { RunConnector(c, ks, country) :
                          ks \in ResponseSeqs(c, country, city) } }]]]

SumN(outs) ==
    IF outs = <<>> THEN 0
    ELSE LET S[i \in 0..Len(outs)] ==
                 IF i = 0 THEN 0 ELSE S[i - 1] + outs[i].n
         IN  S[Len(outs)]

\* get_safety_report up to its await of get_safety_brief (lines 1238-1249):
\* the three connector coroutines are created, not scheduled
GetSafetyReport ==
    /\ report = IdleReport
    /\ brief.pc = "idle"
    /\ \E loc \in Locations :
          report' = [IdleReport EXCEPT
                        !.pc = "brief",
                        !.country = IF loc.country = "" THEN "Unknown"
                                    ELSE loc.country,
                        !.city = loc.city,
                        !.known = loc.country # "",
                        !.log = <<"coords_to_location", "coroutines_created",
                                  "get_safety_brief">>]
    /\ UNCHANGED <<merge, chunk, has_key, exists, rows, next_id, started, call, fetched,
                   brief, synth, parse, crisis, embed>>

\* the get_safety_brief call of get_safety_report (lines 1249-1252)
ReportBrief ==
    /\ report.pc = "brief"
    /\ \/ GetSafetyBriefFor({report.country}, {5})
       \/ BriefEmbedded

\* get_safety_brief returned; gather of the three connector coroutines
\* starts and awaits them (lines 1249-1273)
ReportGather ==
    /\ report.pc = "brief"
    /\ brief.pc = "done"
    /\ \E a \in ReportTable["fetch_city_news"][report.country][report.city] :
       \E b \in ReportTable["fetch_gdacs_nearby"][report.country][report.city] :
       \E c \in ReportTable["fetch_news"][report.country][report.city] :
          LET rag == Len(brief.contents)
              l   == report.log \o
                       <<"brief_return", "fetch_city_news", "fetch_gdacs_nearby",
                         "fetch_news", "gather_return">>
              r   == [report EXCEPT !.rag = rag, !.status = brief.status,
                                    !.local = <<a, b, c>>]
          IN  report' =
                 IF rag > 0
                 THEN [r EXCEPT !.pc = "synth",
                                !.chunks = SumN(<<a, b, c>>) + rag,
                                !.log = l \o <<"synthesize_briefing">>]
                 ELSE [r EXCEPT !.pc = "live",
                                !.log = l \o <<"live_fanout">>]
    /\ UNCHANGED <<merge, chunk, has_key, exists, rows, next_id, started, call, fetched,
                   brief, synth, parse, crisis, embed>>

\* the second-tier gather of the four country connectors (lines 1275-1303)
ReportLive ==
    /\ report.pc = "live"
    /\ \E outs \in [1..4 -> [raised : BOOLEAN, n : 0..5]] :
          /\ \A i \in 1..4 :
                outs[i] \in ReportTable[LiveConnectors[i]][report.country][""]
          /\ LET chunks == SumN(report.local) + SumN(outs)
                 r == [report EXCEPT !.live = outs, !.chunks = chunks]
             IN  report' =
                   IF \E i \in 1..4 : outs[i].raised
                   THEN [r EXCEPT !.pc = "done", !.result = "raised",
                                  !.chunks = 0]
                   ELSE IF chunks = 0
                   THEN [r EXCEPT !.pc = "done", !.result = "none"]
                   ELSE [r EXCEPT !.pc = "synth",
                                  !.log = @ \o <<"synthesize_briefing">>]
    /\ UNCHANGED <<merge, chunk, has_key, exists, rows, next_id, started, call, fetched,
                   brief, synth, parse, crisis, embed>>

\* synthesize_briefing returned (lines 1269-1272, 1302-1305)
ReportSynthesized ==
    /\ report.pc = "synth"
    /\ report' = [report EXCEPT !.pc = "done", !.result = "briefing"]
    /\ UNCHANGED <<merge, chunk, has_key, exists, rows, next_id, started, call, fetched,
                   brief, synth, parse, crisis, embed>>

ReportCollections ==
    { NoRows } \cup
    { [i \in {0} |-> StoredRow(0, c, FALSE)] : c \in {"Sudan", "sudan"} }

InitReport ==
    /\ has_key \in BOOLEAN
    /\ exists = TRUE
    /\ rows \in ReportCollections
    /\ next_id = 0
    /\ started = 0
    /\ call = [p \in Slots |-> IdleCall]
    /\ fetched = NotFetched
    /\ brief = IdleBrief
    /\ RestIdle

NextReport ==
    GetSafetyReport \/ ReportBrief \/ ReportGather \/ ReportLive
    \/ ReportSynthesized

SpecReport == InitReport /\ [][NextReport]_vars


\* ======================================================================
\* _openrouter_generate and synthesize_briefing
\* ======================================================================
\* what one chat-completions request can end in:
\*   text       : 200, content a non-empty string
\*   empty      : 200, content ""
\*   null       : 200, content null
\*   bad_body   : 200, body not JSON or without choices[0].message.content
\*   status_429 : HTTPStatusError with status 429
\*   status_500 : HTTPStatusError with another status
\*   transport  : any other exception of the request (timeout, connection)
GenKinds ==
    {"text", "empty", "null", "bad_body", "status_429", "status_500",
     "transport"}

GEN_DELAYS == <<5, 15, 30>>

\* the exception an attempt answered with `kind` raises inside the try
\* ("" for none): raise_for_status, resp.json() / the subscripts, the POST
GenError(kind) ==
    CASE kind \in {"status_429", "status_500"} -> "HTTPStatusError"
      [] kind = "bad_body"                      -> "KeyError"
      [] kind = "transport"                     -> "TransportError"
      [] OTHER                                  -> ""

\* the exceptions the two except clauses catch (lines 1079, 1093)
GenCaught_statusonly(exc) == exc = "HTTPStatusError"

GenCaught(exc) == exc \in {"HTTPStatusError", "KeyError", "TransportError"}

\* the value _openrouter_generate returns from attempt `attempt` (0-based)
\* on, with the requests sent so far: "text", "" (empty string) or "None";
\* raised when an exception leaves it
RECURSIVE GenerateFrom(_, _, _)
GenerateFrom(kinds, attempt, sent) ==
    IF attempt >= Len(GEN_DELAYS)
    THEN [value |-> "None", sent |-> sent, slept |-> <<>>, raised |-> FALSE]
    ELSE LET k == kinds[attempt + 1] IN
         CASE k = "text"  -> [value |-> "text", sent |-> sent + 1,
                              slept |-> <<>>, raised |-> FALSE]
           [] k = "empty" -> [value |-> "", sent |-> sent + 1,
                              slept |-> <<>>, raised |-> FALSE]
           [] k = "null"  -> [value |-> "None", sent |-> sent + 1,
                              slept |-> <<>>, raised |-> FALSE]
           [] k = "status_429" /\ attempt < Len(GEN_DELAYS) - 1 ->
                 LET r == GenerateFrom(kinds, attempt + 1, sent + 1)
                 IN  [r EXCEPT !.slept = <<GEN_DELAYS[attempt + 1]>> \o @]
           [] OTHER -> [value |-> "None", sent |-> sent + 1, slept |-> <<>>,
                        raised |-> ~GenCaught(GenError(k))]

openrouter_generate(key, kinds) ==
    IF ~key THEN [value |-> "None", sent |-> 0, slept |-> <<>>, raised |-> FALSE]
    ELSE GenerateFrom(kinds, 0, 0)

EXCERPT_CHARS == 1500

\* chunk texts: an identity and a length in characters
SynthTexts == { [id |-> 1, len |-> 40], [id |-> 2, len |-> 1600] }

SynthInputs ==
    UNION { [1..n -> SynthTexts] : n \in 0..MaxChunks }

\* sections = [f"[{i}] {text[:1500]}" for i, text in enumerate(chunks, 1)]
Sections_fromzero(chunks) ==
    [i \in DOMAIN chunks |->
        [num |-> i - 1, of |-> chunks[i].id,
         len |-> Min(chunks[i].len, EXCERPT_CHARS)]]
Sections(chunks) ==
    [i \in DOMAIN chunks |->
        [num |-> i, of |-> chunks[i].id,
         len |-> Min(chunks[i].len, EXCERPT_CHARS)]]

\* the string synthesize_briefing returns, by its parts
Briefing(chunks, generated) ==
    IF generated \notin {"", "None"}
    THEN [header |-> "## Operational Field Briefing", body |-> generated,
          sections |-> <<>>]
    ELSE [header |-> "## Safety & Security Briefing", body |-> "",
          sections |-> Sections(chunks)]

\* synthesize_briefing up to its await of _llm_generate (lines 1117-1140)
SynthesizeBriefing ==
    /\ synth.pc = "idle"
    /\ \E chunks \in SynthInputs :
          synth' = [synth EXCEPT !.pc = "generate", !.chunks = chunks]
    /\ UNCHANGED <<merge, chunk, has_key, exists, rows, next_id, started, call, fetched,
                   brief, report, parse, crisis, embed>>

\* _llm_generate returned (lines 1140-1157)
SynthGenerated ==
    /\ synth.pc = "generate"
    /\ \E kinds \in [1..Len(GEN_DELAYS) -> GenKinds] :
          LET g == openrouter_generate(has_key, kinds)
          IN  synth' = [synth EXCEPT !.pc = "done", !.responses = kinds,
                                     !.sent = g.sent, !.slept = g.slept,
                                     !.generated = g.value,
                                     !.raised = g.raised,
                                     !.out = Briefing(synth.chunks, g.value)]
    /\ UNCHANGED <<merge, chunk, has_key, exists, rows, next_id, started, call, fetched,
                   brief, report, parse, crisis, embed>>

InitSynth ==
    /\ has_key \in BOOLEAN
    /\ exists = FALSE
    /\ rows = NoRows
    /\ next_id = 0
    /\ started = 0
    /\ call = [p \in Slots |-> IdleCall]
    /\ fetched = NotFetched
    /\ brief = IdleBrief
    /\ RestIdle

NextSynth == SynthesizeBriefing \/ SynthGenerated

SpecSynth == InitSynth /\ [][NextSynth]_vars


\* ======================================================================
\* crisis_query._parse_response(country, raw)
\* ======================================================================
\* A text is a sequence of atoms: the structural characters of JSON, the
\* quote, white space, the fence of a code block, and words (runs of
\* characters that are none of these).
Q == "\""
FENCE == "~~~"     \* stands for the three backquotes of a code fence

IsWs(t) == t \in {" ", "\n"}

RECURSIVE SkipWs(_, _)
SkipWs(s, i) == IF i <= Len(s) /\ IsWs(s[i]) THEN SkipWs(s, i + 1) ELSE i

\* str.strip()
RECURSIVE RStrip(_)
RStrip(s) ==
    IF s # <<>> /\ IsWs(s[Len(s)]) THEN RStrip(SubSeq(s, 1, Len(s) - 1)) ELSE s

Strip(s) == LET r == RStrip(s) IN SubSeq(r, SkipWs(r, 1), Len(r))

\* first position from i on of an atom in set; 0 when there is none
RECURSIVE FirstOf(_, _, _)
FirstOf(s, i, set) ==
    IF i > Len(s) THEN 0
    ELSE IF s[i] \in set THEN i ELSE FirstOf(s, i + 1, set)

\* first / last position in the whole of s of an atom in set; 0 when none
FirstIn(s, set) ==
    LET hits == { i \in DOMAIN s : s[i] \in set }
    IN  IF hits = {} THEN 0 ELSE CHOOSE i \in hits : \A j \in hits : i <= j

LastIn(s, set) ==
    LET hits == { i \in DOMAIN s : s[i] \in set }
    IN  IF hits = {} THEN 0 ELSE CHOOSE i \in hits : \A j \in hits : j <= i

\* ---- json.loads ------------------------------------------------------
\* values: [t |-> "str", s], [t |-> "null"], [t |-> "num"],
\*         [t |-> "arr", items], [t |-> "obj", keys, vals]
JNull == [t |-> "null"]
JStr(s) == [t |-> "str", s |-> s]
JFail == [ok |-> FALSE, val |-> JNull, next |-> 0]

RECURSIVE ParseValue(_, _)
RECURSIVE ParseMembers(_, _, _, _)
RECURSIVE ParseElements(_, _, _)

ParseValue(s, i0) ==
    LET i == SkipWs(s, i0) IN
    IF i > Len(s) THEN JFail
    ELSE CASE s[i] = Q ->
                LET j == FirstOf(s, i + 1, {Q})
                IN  IF j = 0 \/ FirstOf(SubSeq(s, i + 1, j - 1), 1, {"\n"}) # 0
                    THEN JFail
                    ELSE [ok |-> TRUE, val |-> JStr(SubSeq(s, i + 1, j - 1)),
                          next |-> j + 1]
           [] s[i] = "null" -> [ok |-> TRUE, val |-> JNull, next |-> i + 1]
           [] s[i] = "5" -> [ok |-> TRUE, val |-> [t |-> "num"], next |-> i + 1]
           [] s[i] = "{" ->
                LET j == SkipWs(s, i + 1)
                IN  IF j <= Len(s) /\ s[j] = "}"
                    THEN [ok |-> TRUE,
                          val |-> [t |-> "obj", keys |-> <<>>, vals |-> <<>>],
                          next |-> j + 1]
                    ELSE ParseMembers(s, j, <<>>, <<>>)
           [] s[i] = "[" ->
                LET j == SkipWs(s, i + 1)
                IN  IF j <= Len(s) /\ s[j] = "]"
                    THEN [ok |-> TRUE, val |-> [t |-> "arr", items |-> <<>>],
                          next |-> j + 1]
                    ELSE ParseElements(s, j, <<>>)
           [] OTHER -> JFail

\* the members of an object from its next key on
ParseMembers(s, i0, keys, vals) ==
    LET i == SkipWs(s, i0) IN
    IF i > Len(s) \/ s[i] # Q THEN JFail
    ELSE LET k == ParseValue(s, i) IN
         IF ~k.ok THEN JFail
         ELSE LET c == SkipWs(s, k.next) IN
              IF c > Len(s) \/ s[c] # ":" THEN JFail
              ELSE LET v == ParseValue(s, c + 1) IN
                   IF ~v.ok THEN JFail
                   ELSE LET e  == SkipWs(s, v.next)
                            ks == Append(keys, k.val.s)
                            vs == Append(vals, v.val)
                        IN  IF e > Len(s) THEN JFail
                            ELSE IF s[e] = "," THEN ParseMembers(s, e + 1, ks, vs)
                            ELSE IF s[e] = "}"
                            THEN [ok |-> TRUE,
                                  val |-> [t |-> "obj", keys |-> ks, vals |-> vs],
                                  next |-> e + 1]
                            ELSE JFail

\* the elements of an array from its next element on
ParseElements(s, i0, items) ==
    LET v == ParseValue(s, i0) IN
    IF ~v.ok THEN JFail
    ELSE LET e  == SkipWs(s, v.next)
             xs == Append(items, v.val)
         IN  IF e > Len(s) THEN JFail
             ELSE IF s[e] = "," THEN ParseElements(s, e + 1, xs)
             ELSE IF s[e] = "]"
             THEN [ok |-> TRUE, val |-> [t |-> "arr", items |-> xs],
                   next |-> e + 1]
             ELSE JFail

\* json.loads(s): one value and nothing but white space after it
json_loads(s) ==
    LET v == ParseValue(s, 1) IN
    IF v.ok /\ SkipWs(s, v.next) > Len(s)
    THEN [ok |-> TRUE, val |-> v.val]
    ELSE [ok |-> FALSE, val |-> JNull]


\* ---- the stages of _parse_response (lines 165-192) -------------------
\* text after the two fence substitutions of lines 167-168
StripFence(text) ==
    LET f1 == FirstIn(text, {FENCE}) IN
    IF f1 = 0 THEN text
    ELSE LET k0 == IF f1 + 1 <= Len(text) /\ text[f1 + 1] = "json"
                   THEN f1 + 2 ELSE f1 + 1
             t1 == SubSeq(text, SkipWs(text, k0), Len(text))
             f2 == FirstIn(t1, {FENCE})
         IN  Strip(IF f2 = 0 THEN t1 ELSE SubSeq(t1, 1, f2 - 1))

RECURSIVE WsStart(_, _)
WsStart(s, p) == IF p > 1 /\ IsWs(s[p - 1]) THEN WsStart(s, p - 1) ELSE p

\* s without its tail from position p, the white space before p and one
\* comma before that (the `,?\s*` of the three patterns)
CutBefore(s, p) ==
    LET w == WsStart(s, p)
        k == IF w > 1 /\ s[w - 1] = "," THEN w - 1 ELSE w
    IN  SubSeq(s, 1, k - 1)

\* re.sub(r',?\s*"[^"]*$', "", s): cut at the last quote
DropOpenString(s) ==
    LET p == LastIn(s, {Q}) IN IF p = 0 THEN s ELSE CutBefore(s, p)

\* re.sub(r',?\s*\{[^{}]*$', "", s): cut at a last brace that opens
DropOpenDict(s) ==
    LET p == LastIn(s, {"{", "}"})
    IN  IF p = 0 \/ s[p] = "}" THEN s ELSE CutBefore(s, p)

\* re.sub(r',?\s*\[[^[\]]*$', "", s): cut at a last bracket that opens
DropOpenList(s) ==
    LET p == LastIn(s, {"[", "]"})
    IN  IF p = 0 \/ s[p] = "]" THEN s ELSE CutBefore(s, p)

NEEDS_OPEN == <<Q, "needs", Q, ":", " ", "[">>        \* '"needs": ['

\* start of the last occurrence of pat in s; 0 when there is none
LastSub(s, pat) ==
    LET hits == { i \in 1..(Len(s) - Len(pat) + 1) :
                    SubSeq(s, i, i + Len(pat) - 1) = pat }
    IN  IF hits = {} THEN 0 ELSE CHOOSE i \in hits : \A j \in hits : j <= i

\* text.rsplit('"needs": [', 1)[0]
RSplitNeeds(text) ==
    LET p == LastSub(text, NEEDS_OPEN)
    IN  IF p = 0 THEN text ELSE SubSeq(text, 1, p - 1)

\* lines 170-192: the stage that produced data, "fallback" when none did
ParseStages(text) ==
    LET direct == json_loads(text) IN
    IF direct.ok THEN [stage |-> "direct", data |-> direct.val]
    ELSE
    LET cleaned == DropOpenList(DropOpenDict(DropOpenString(text)))
        closed  == json_loads(cleaned \o <<"}", "]", "}", "]", "}">>)
    IN
    IF closed.ok THEN [stage |-> "close", data |-> closed.val]
    ELSE
    LET needs == json_loads(RSplitNeeds(text) \o NEEDS_OPEN
                            \o <<"]", "}", "]", "}">>)
    IN
    IF needs.ok THEN [stage |-> "needs", data |-> needs.val]
    ELSE [stage |-> "fallback", data |-> JNull]

\* ---- lines 194-242: from data to the cities -------------------------
Truthy(v) ==
    CASE v.t = "str"  -> v.s # <<>>
      [] v.t = "null" -> FALSE
      [] v.t = "num"  -> TRUE
      [] v.t = "arr"  -> v.items # <<>>
      [] v.t = "obj"  -> v.keys # <<>>

\* a or b
Or(a, b) == IF Truthy(a) THEN a ELSE b

\* d.get(key, default) of a dict d
Get(d, key, default) ==
    LET hit == { i \in DOMAIN d.keys : d.keys[i] = <<key>> }
    IN  IF hit = {} THEN default
        ELSE d.vals[CHOOSE i \in hit : \A j \in hit : j <= i]

\* `for x in v`: TypeError on None and numbers; a str or a dict yields
\* strings, which the loops skip as non-dicts
IterRaises(v) == v.t \in {"null", "num"}
IterItems(v) == IF v.t = "arr" THEN v.items ELSE <<>>

LowerAtom(t) ==
    CASE t = "HIGH"     -> "high"
      [] t = "Critical" -> "critical"
      [] t = "Donetsk"  -> "donetsk"
      [] t = "Donetska" -> "donetska"
      [] t = "Oblast"   -> "oblast"
      [] t = "Nyala"    -> "nyala"
      [] t = "South"    -> "south"
      [] t = "Darfur"   -> "darfur"
      [] t = "Sudan"    -> "sudan"
      [] t = "Ukraine"  -> "ukraine"
      [] OTHER          -> t

Lower(s) == [i \in DOMAIN s |-> LowerAtom(s[i])]

\* s.replace(" oblast", "")
RECURSIVE RemoveOblast(_)
RemoveOblast(s) ==
    IF Len(s) < 2 THEN s
    ELSE IF s[1] = " " /\ s[2] = "oblast" THEN RemoveOblast(SubSeq(s, 3, Len(s)))
    ELSE <<s[1]>> \o RemoveOblast(Tail(s))

\* _REGION_TO_CITY (the entries for Donetsk and South Darfur)
REGION_TO_CITY ==
    [k \in {<<"donetska">>, <<"donetsk", " ", "oblast">>,
            <<"south", " ", "darfur">>} |->
        IF k = <<"south", " ", "darfur">> THEN <<"Nyala">> ELSE <<"Donetsk">>]

\* _clean_name(name): [raised, name]
clean_name(v) ==
    IF ~Truthy(v) THEN [raised |-> FALSE, name |-> <<>>]
    ELSE IF v.t # "str" THEN [raised |-> TRUE, name |-> <<>>]
    ELSE LET n   == Strip(v.s)
             key == Strip(RemoveOblast(Lower(n)))
         IN  [raised |-> FALSE,
              name |-> IF key \in DOMAIN REGION_TO_CITY THEN REGION_TO_CITY[key]
                       ELSE IF Lower(n) \in DOMAIN REGION_TO_CITY
                       THEN REGION_TO_CITY[Lower(n)]
                       ELSE n]

SEVERITIES == {<<"critical">>, <<"high">>, <<"moderate">>}

Coerce(sev) == IF sev \in SEVERITIES THEN sev ELSE <<"high">>

\* lines 210-223 for one dict n: [raised, keep, need]
NeedOut(n) ==
    LET sector   == Or(Or(Get(n, "sector", JNull), Get(n, "cluster", JNull)),
                       JStr(<<"Other">>))
        severity == Or(Get(n, "severity", JNull), JStr(<<"high">>))
        desc     == Or(Or(Get(n, "description", JNull),
                          Get(n, "explanation", JNull)), JStr(<<>>))
        none     == [sector |-> <<>>, severity |-> <<>>, description |-> <<>>]
    IN  IF sector.t # "str" \/ severity.t # "str" \/ desc.t # "str"
        THEN [raised |-> TRUE, keep |-> FALSE, need |-> none]
        ELSE [raised |-> FALSE,
              keep |-> Strip(desc.s) # <<>>,
              need |-> [sector |-> Strip(sector.s),
                        severity |-> Coerce(Lower(Strip(severity.s))),
                        description |-> Strip(desc.s)]]

\* the loop of lines 207-223 from item i on: [raised, needs]
RECURSIVE NeedsFrom(_, _, _)
NeedsFrom(items, i, acc) ==
    IF i > Len(items) THEN [raised |-> FALSE, needs |-> acc]
    ELSE IF items[i].t # "obj" THEN NeedsFrom(items, i + 1, acc)
    ELSE LET o == NeedOut(items[i]) IN
         IF o.raised THEN [raised |-> TRUE, needs |-> acc]
         ELSE NeedsFrom(items, i + 1,
                        IF o.keep THEN Append(acc, o.need) ELSE acc)

\* merged.setdefault(name, []).extend(needs_out)
Extend_replace(merged, name, needs) ==
    IF \E i \in DOMAIN merged : merged[i].name = name
    THEN [i \in DOMAIN merged |->
            IF merged[i].name = name
            THEN [merged[i] EXCEPT !.needs = needs] ELSE merged[i]]
    ELSE Append(merged, [name |-> name, needs |-> needs])
Extend(merged, name, needs) ==
    IF \E i \in DOMAIN merged : merged[i].name = name
    THEN [i \in DOMAIN merged |->
            IF merged[i].name = name
            THEN [merged[i] EXCEPT !.needs = @ \o needs] ELSE merged[i]]
    ELSE Append(merged, [name |-> name, needs |-> needs])

\* the loop of lines 198-226 from item i on: [raised, cities]
RECURSIVE CitiesFrom(_, _, _)
CitiesFrom(items, i, merged) ==
    IF i > Len(items) THEN [raised |-> FALSE, cities |-> merged]
    ELSE IF items[i].t # "obj" THEN CitiesFrom(items, i + 1, merged)
    ELSE
    LET city == items[i]
        nm   == clean_name(Get(city, "name", JStr(<<>>)))
    IN
    IF nm.raised THEN [raised |-> TRUE, cities |-> merged]
    ELSE IF nm.name = <<>> THEN CitiesFrom(items, i + 1, merged)
    ELSE
    LET needs_raw == Or(Or(Get(city, "needs", JNull), Get(city, "crises", JNull)),
                        [t |-> "arr", items |-> <<>>])
    IN
    IF IterRaises(needs_raw) THEN [raised |-> TRUE, cities |-> merged]
    ELSE
    LET out == NeedsFrom(IterItems(needs_raw), 1, <<>>) IN
    IF out.raised THEN [raised |-> TRUE, cities |-> merged]
    ELSE CitiesFrom(items, i + 1,
                    IF out.needs # <<>> THEN Extend(merged, nm.name, out.needs)
                    ELSE merged)

PARSE_ERROR == <<"Parse", " ", "error">>

\* _parse_response(country, raw): [raised, stage, cities]
parse_response(raw) ==
    IF Strip(raw) = <<>>
    THEN [raised |-> FALSE, stage |-> "blank", cities |-> <<>>]
    ELSE
    LET text == StripFence(Strip(raw))
        st   == ParseStages(text)
    IN
    IF st.stage = "fallback"
    THEN [raised |-> FALSE, stage |-> "fallback",
          cities |-> << [name |-> PARSE_ERROR,
                         needs |-> << [sector |-> <<"Other">>,
                                       severity |-> <<"high">>,
                                       description |-> raw] >>] >>]
    ELSE IF st.data.t # "obj"
    THEN [raised |-> TRUE, stage |-> st.stage, cities |-> <<>>]
    ELSE
    LET cities == Get(st.data, "cities", [t |-> "arr", items |-> <<>>]) IN
    IF IterRaises(cities)
    THEN [raised |-> TRUE, stage |-> st.stage, cities |-> <<>>]
    ELSE LET out == CitiesFrom(IterItems(cities), 1, <<>>)
         IN  [raised |-> out.raised, stage |-> st.stage,
              cities |-> IF out.raised THEN <<>> ELSE out.cities]


\* ---- the texts _parse_response is applied to -------------------------
\* json.dumps-style serialisation: ", " between items and ": " after keys
JString(content) == <<Q>> \o content \o <<Q>>

Member(key, val) == <<Q, key, Q, ":", " ">> \o val

RECURSIVE CommaJoin(_)
CommaJoin(parts) ==
    IF parts = <<>> THEN <<>>
    ELSE IF Len(parts) = 1 THEN parts[1]
    ELSE parts[1] \o <<",", " ">> \o CommaJoin(Tail(parts))

JObject(members) == <<"{">> \o CommaJoin(members) \o <<"}">>
JArray(items) == <<"[">> \o CommaJoin(items) \o <<"]">>

\* a need {"severity": ..., "description": ...}; a field is a text
TextNeed(severity, description) ==
    JObject(<<Member("severity", severity), Member("description", description)>>)

TextCity(name, needs) ==
    JObject(<<Member("name", name), Member("needs", JArray(needs))>>)

TextAssessment(cities) ==
    JObject(<<Member("country", JString(<<"Sudan">>)),
              Member("cities", JArray(cities))>>)

\* well-formed needs: severities in and out of the three levels, in other
\* case, padded, null; descriptions present, empty, blank
S1 == [severity |-> <<"critical">>, null |-> FALSE, description |-> <<"d1">>]
S2 == [severity |-> <<" ", "HIGH", " ">>, null |-> FALSE, description |-> <<"d2">>]
S3 == [severity |-> <<"urgent">>, null |-> FALSE, description |-> <<"d3">>]
S4 == [severity |-> <<"moderate">>, null |-> FALSE, description |-> <<>>]
S5 == [severity |-> <<>>, null |-> TRUE, description |-> <<" ", "d5", " ">>]
S6 == [severity |-> <<"high">>, null |-> FALSE, description |-> <<" ">>]

NeedText(n) ==
    TextNeed(IF n.null THEN <<"null">> ELSE JString(n.severity),
             JString(n.description))

N1 == NeedText(S1)
N2 == NeedText(S2)
N3 == NeedText(S3)

NeedLists == { <<>>, <<S1>>, <<S4>>, <<S2, S3>>, <<S6, S5, S1>> }

CityNames ==
    { <<"Donetsk">>, <<"Donetska", " ", "Oblast">>, <<"South", " ", "Darfur">>,
      <<"Nyala">>, <<" ">> }

\* a well-formed assessment: its cities, each a name and a list of needs
WellFormed ==
    UNION { [1..n -> [name : CityNames, needs : NeedLists]] :
            n \in 0..MaxCities }

WellFormedText(cities) ==
    TextAssessment([i \in DOMAIN cities |->
        TextCity(JString(cities[i].name),
                 [k \in DOMAIN cities[i].needs |-> NeedText(cities[i].needs[k])])])

\* the assessment whose wrappings and truncations are parsed
J0 ==
    TextAssessment(<< TextCity(JString(<<"Nyala">>), <<N1>>),
                      TextCity(JString(<<"Donetsk">>), <<N2, N3>>) >>)

PROSE_BEFORE == <<"Here", " ", "is", " ", "the", " ", "assessment", ":", "\n">>
PROSE_AFTER  == <<"\n", "Let", " ", "me", " ", "know", ".">>

Wrappings ==
    [ bare          |-> J0,
      fenced        |-> <<FENCE, "\n">> \o J0 \o <<"\n", FENCE>>,
      fenced_json   |-> <<FENCE, "json", "\n">> \o J0 \o <<"\n", FENCE>>,
      fenced_prose  |-> PROSE_BEFORE \o <<FENCE, "json", "\n">> \o J0
                        \o <<"\n", FENCE>> \o PROSE_AFTER,
      prose_before  |-> PROSE_BEFORE \o J0,
      prose_after   |-> J0 \o PROSE_AFTER,
      prose_both    |-> PROSE_BEFORE \o J0 \o PROSE_AFTER ]

\* JSON of another shape than the assessment
OddCity(name, needs) == JObject(<<Member("name", name), Member("needs", needs)>>)

OddAssessment(cities) == JObject(<<Member("cities", cities)>>)

OddShapes ==
    { <<"null">>, <<"5">>, JString(<<"abc">>), JArray(<<<<"5">>>>),
      JArray(<<TextCity(JString(<<"Nyala">>), <<N1>>)>>),
      OddAssessment(<<"null">>), OddAssessment(<<"5">>),
      OddAssessment(JString(<<"abc">>)),
      OddAssessment(JArray(<<<<"5">>, <<"null">>>>)),
      OddAssessment(JArray(<<OddCity(<<"5">>, JArray(<<N1>>))>>)),
      OddAssessment(JArray(<<OddCity(<<"null">>, JArray(<<N1>>))>>)),
      OddAssessment(JArray(<<OddCity(JString(<<"Nyala">>), <<"null">>)>>)),
      OddAssessment(JArray(<<OddCity(JString(<<"Nyala">>), <<"5">>)>>)),
      OddAssessment(JArray(<<OddCity(JString(<<"Nyala">>), JString(<<"abc">>))>>)),
      OddAssessment(JArray(<<OddCity(JString(<<"Nyala">>),
                                     JArray(<<<<"5">>, N1>>))>>)),
      OddAssessment(JArray(<<OddCity(JString(<<"Nyala">>),
              JArray(<<TextNeed(<<"5">>, JString(<<"d1">>))>>))>>)),
      OddAssessment(JArray(<<OddCity(JString(<<"Nyala">>),
              JArray(<<TextNeed(JString(<<"high">>), <<"5">>)>>))>>)),
      OddAssessment(JArray(<<OddCity(JString(<<"Nyala">>),
              JArray(<<TextNeed(JString(<<"high">>), <<"null">>)>>))>>)) }

NonJson ==
    { <<"I", " ", "cannot", " ", "help", ".">>, <<"{", "oops">>,
      <<" ">>, <<>> }

ParseInputs ==
    { [family |-> "well_formed", wrap |-> "bare", cut |-> 0,
       raw |-> WellFormedText(cs), given |-> cs] : cs \in WellFormed }
    \cup
    { [family |-> "wrapped", wrap |-> w, cut |-> 0, raw |-> Wrappings[w], given |-> <<>>] :
        w \in DOMAIN Wrappings }
    \cup
    { [family |-> "truncated", wrap |-> "bare", cut |-> k,
       raw |-> SubSeq(J0, 1, k), given |-> <<>>] : k \in 1..(Len(J0) - 1) }
    \cup
    { [family |-> "truncated", wrap |-> "fenced_json", cut |-> k,
       raw |-> <<FENCE, "json", "\n">> \o SubSeq(J0, 1, k), given |-> <<>>] :
        k \in 1..(Len(J0) - 1) }
    \cup
    { [family |-> "odd_shape", wrap |-> "bare", cut |-> 0, raw |-> t,
       given |-> <<>>] :
        t \in OddShapes }
    \cup
    { [family |-> "non_json", wrap |-> "bare", cut |-> 0, raw |-> t,
       given |-> <<>>] :
        t \in NonJson }

\* _parse_response applied to one text
ParseResponse ==
    /\ parse.pc = "idle"
    /\ \E inp \in ParseInputs :
          parse' = [pc |-> "done", family |-> inp.family, wrap |-> inp.wrap,
                    cut |-> inp.cut, raw |-> inp.raw, given |-> inp.given,
                    out |-> parse_response(inp.raw)]
    /\ UNCHANGED <<merge, chunk, has_key, exists, rows, next_id, started, call, fetched,
                   brief, report, synth, crisis, embed>>

InitParse ==
    /\ has_key = TRUE
    /\ exists = FALSE
    /\ rows = NoRows
    /\ next_id = 0
    /\ started = 0
    /\ call = [p \in Slots |-> IdleCall]
    /\ fetched = NotFetched
    /\ brief = IdleBrief
    /\ RestIdle

NextParse == ParseResponse

SpecParse == InitParse /\ [][NextParse]_vars


\* ======================================================================
\* Properties
\* ======================================================================
Has(log, ev) == \E i \in DOMAIN log : log[i] = ev

\* the ids of the batch_upsert that succeeded in call c, if any
WrittenIds(c) ==
    IF c.upserts # <<>> /\ c.upserts[Len(c.upserts)].ok
    THEN c.upserts[Len(c.upserts)].ids ELSE {}

\* the first batch_upsert of call c raised (the recovery path was entered)
Recovered(c) == c.upserts # <<>> /\ ~c.upserts[1].ok

Returned(c) == c.pc \in {"done", "past"}

\* q is the call made right after p, both returned, each stored a record
Consecutive(p, q) ==
    /\ Returned(call[p]) /\ call[q].pc = "done"
    /\ call[q].seqno = call[p].seqno + 1
    /\ call[p].result > 0 /\ call[q].result > 0

\* C1: of two ingest_country calls made one after the other, each
\* storing at least one record, every id written by the second is greater
\* than every id written by the first.
C1_StrictlyIncreasingIds ==
    \A p, q \in Slots :
        Consecutive(p, q) =>
            \A i \in WrittenIds(call[p]), j \in WrittenIds(call[q]) : i < j

\* C2: in a returned ingest_intelligence call, batch_upsert ran at most
\* twice; a failed first batch_upsert is followed by _recreate_collection;
\* when that succeeded the retry ran once, with ids 0..n-1, on the emptied
\* collection, and its success returns n with _next_id = n; when the
\* recreation or the retry raised, the call returned 0.
C2_RecoverRetryOnce ==
    \A p \in Slots :
        LET c == call[p]
            n == Len(c.texts)
        IN  c.pc = "done" =>
            /\ Len(c.upserts) <= 2
            /\ Len(c.upserts) = 2 => Recovered(c)
            /\ Recovered(c) =>
                  /\ Has(c.log, "create_collection") \/ Has(c.log, "recreate_raise")
                  /\ IF Has(c.log, "recreate_raise")
                     THEN Len(c.upserts) = 1 /\ c.result = 0
                     ELSE /\ Len(c.upserts) = 2
                          /\ c.upserts[2].ids = 0 .. (n - 1)
                          /\ exists
                          /\ IF c.upserts[2].ok
                             THEN /\ c.result = n
                                  /\ DOMAIN rows = 0 .. (n - 1)
                                  /\ next_id = n
                             ELSE /\ c.result = 0
                                  /\ rows = NoRows
                                  /\ next_id = 0

C2_Witness ==
    \E p \in Slots :
        /\ call[p].pc = "done" /\ call[p].pre # NoRows
        /\ Len(call[p].upserts) = 2 /\ call[p].upserts[2].ok
        /\ call[p].result = 2

\* C3: the ids stored in the collection are exactly 0 .. count-1
C3_ContiguousIds == DOMAIN rows = 0 .. (Count(rows) - 1)

C3_Witness ==
    /\ Count(rows) >= 3 /\ started = 3
    /\ \E p \in Slots : call[p].pc = "done" /\ Has(call[p].log, "count_raise")
                        /\ call[p].result > 0 /\ ~Recovered(call[p])

\* every record of pre is in r with the same id, vector and payload
Preserved(pre, r) ==
    \A i \in DOMAIN pre : i \in DOMAIN r /\ r[i] = pre[i]

\* C4: a call that did not go through corruption recovery leaves every
\* record that was in the collection before it in place and unchanged
C4_OnlyRecoveryOverwrites ==
    \A p \in Slots :
        (call[p].pc = "done" /\ ~Recovered(call[p]))
            => Preserved(call[p].pre, rows)


\* p and q returned and neither had returned when the other started
Concurrent(p, q) ==
    p # q /\ call[p].pc = "done" /\ call[q].pc = "done"

SharedIds(p, q) == WrittenIds(call[p]) \cap WrittenIds(call[q])

FullCount(c) == c.result > 0 /\ c.result = Len(c.texts)

\* a store operation of call c raised: its count read or its first upsert
StoreFault(c) == Recovered(c) \/ Has(c.log, "count_raise")

After(log, first, ev) ==
    \A j \in DOMAIN log :
        log[j] = ev => \E i \in 1..(j - 1) : log[i] = first

\* C6: within one ingestion job embed_texts is called only after chunking,
\* and the row count is read, the ids are built and batch_upsert is called
\* only after embed_texts has returned the embeddings.
C6_ChunkEmbedThenAllocate ==
    \A p \in Slots :
        LET l == call[p].log
        IN  /\ After(l, "chunk_text", "embed_texts")
            /\ After(l, "embed_return", "count")
            /\ After(l, "embed_return", "count_raise")
            /\ After(l, "embed_return", "ids")
            /\ After(l, "embed_return", "batch_upsert")

StoreWrites == {"create_collection", "batch_upsert", "delete_collection"}

\* C7: when all five connectors returned empty lists, ingest_country
\* returned 0, issued no create_collection, batch_upsert or
\* delete_collection and left the collection as it was.
C7_EmptyFetchWritesNothing ==
    \A p \in Slots :
        LET c == call[p]
        IN  (c.pc = "done" /\ c.fetchedChunks = 0) =>
               /\ c.result = 0
               /\ \A i \in DOMAIN c.log : c.log[i] \notin StoreWrites
               /\ rows = c.pre

\* the connectors returned nothing (one of them after swallowing an error)
\* while the collection did not exist yet
C7_Witness ==
    \E p \in Slots :
        /\ call[p].pc = "done" /\ call[p].fetchedChunks = 0
        /\ call[p].connFailed /\ ~exists

\* C8: a connector never raises to its caller; it returns a list
C8_ConnectorsNeverRaise ==
    fetched.conn # "" => ~fetched.raised

\* C9: ingest_country never raises, and when a connector failed while others
\* returned items, the chunks of those items are what is embedded and
\* upserted, their count being returned unless the store or the embedding
\* failed (then 0).
C9_ConnectorFailureIsolated ==
    \A p \in Slots :
        LET c == call[p]
        IN  /\ c.pc # "raised"
            /\ (c.pc = "done" /\ c.connFailed /\ c.fetchedChunks > 0) =>
                  /\ Len(c.texts) = c.fetchedChunks
                  /\ c.result \in {0, c.fetchedChunks}
                  /\ WrittenIds(c) # {} => c.result = c.fetchedChunks

\* C10: get_safety_brief returns at most top_k chunks, each the content of
\* a search result whose payload country is the requested country
C10_AtMostTopKOfCountry ==
    brief.pc = "done" =>
        /\ Len(brief.contents) <= brief.top_k
        /\ \A k \in DOMAIN brief.contents :
              \E i \in DOMAIN brief.results :
                  /\ brief.results[i].country = brief.country
                  /\ brief.results[i].content = brief.contents[k]

BriefStatuses ==
    {"Actian VectorAI offline", "No data in DB",
     "No safety context found in DB", "Actian error", "Actian VectorAI RAG"}

\* some search result carries the requested country and a non-empty content
BriefMatch(b) ==
    \E i \in DOMAIN b.results :
        b.results[i].country = b.country /\ b.results[i].content # EmptyText

\* C11: a returned get_safety_brief reports an unreachable store as
\* ([], offline), an empty collection or a search window without a payload
\* of the country as ([], no-context), an exception from count, embed_text
\* or search as ([], error); the chunk list is non-empty only together with
\* the success status.
C11_FailuresAsStatus ==
    brief.pc = "done" =>
        LET l == brief.log IN
        /\ brief.status \in BriefStatuses
        /\ (brief.contents # <<>>) <=> (brief.status = "Actian VectorAI RAG")
        /\ l = <<"get_cortex_client">> =>
              brief.status = "Actian VectorAI offline"
        /\ (Has(l, "count_raise") \/ Has(l, "embed_raise") \/ Has(l, "search_raise"))
              => brief.status = "Actian error"
        /\ (Has(l, "count") /\ ~Has(l, "embed_text")) =>
              brief.status = "No data in DB"
        /\ (Has(l, "search") /\ ~BriefMatch(brief)) =>
              brief.status = "No safety context found in DB"

\* the search returned rows, none of them of the requested country
C11_Witness ==
    /\ brief.pc = "done" /\ Len(brief.results) >= 2
    /\ ~BriefMatch(brief)
    /\ brief.status = "No safety context found in DB"

\* every connector result get_safety_report received was empty
ReportAllEmpty(r) ==
    /\ \A i \in DOMAIN r.local : r.local[i].n = 0
    /\ \A i \in DOMAIN r.live : r.live[i].n = 0

\* C12: get_safety_report runs the live fan-out exactly when retrieval
\* returned no chunks; it ends with the no-intelligence message exactly when
\* retrieval was empty and all seven connectors returned nothing, and with a
\* synthesized briefing in every other case; a location without a country
\* ends with the no-intelligence message.
C12_FallbackTiers ==
    /\ Has(report.log, "gather_return") =>
          (Has(report.log, "live_fanout") <=> report.rag = 0)
    /\ report.pc = "done" =>
          /\ report.result \in {"none", "briefing"}
          /\ report.result = "none" <=>
                (report.rag = 0 /\ ReportAllEmpty(report))
          /\ ~report.known => report.result = "none"

\* C13: the requests of the three location-scoped connectors are started
\* before get_safety_brief returns
C13_LocalFetchesOverlapBrief ==
    /\ After(report.log, "fetch_city_news", "brief_return")
    /\ After(report.log, "fetch_gdacs_nearby", "brief_return")
    /\ After(report.log, "fetch_news", "brief_return")

\* the provider answered with a non-empty text: a key is set and the first
\* response that is not a 429 is a text, within the attempts made
ProviderText(key, kinds) ==
    /\ key
    /\ \E i \in 1..Len(GEN_DELAYS) :
          /\ kinds[i] = "text"
          /\ \A j \in 1..(i - 1) : kinds[j] = "status_429"

\* C14: synthesize_briefing returns a non-empty string; it is the generated
\* briefing under its header exactly when the provider returned non-empty
\* text, and otherwise the fallback with one excerpt per input chunk,
\* numbered from 1 in input order.
C14_BriefingOrNumberedFallback ==
    synth.pc = "done" =>
        LET o == synth.out IN
        /\ o.header # ""
        /\ IF ProviderText(has_key, synth.responses)
           THEN o.body = "text" /\ o.sections = <<>>
                /\ o.header = "## Operational Field Briefing"
           ELSE /\ o.body = ""
                /\ o.header = "## Safety & Security Briefing"
                /\ Len(o.sections) = Len(synth.chunks)
                /\ \A i \in DOMAIN o.sections :
                      /\ o.sections[i].num = i
                      /\ o.sections[i].of = synth.chunks[i].id

\* two chunks rendered by the fallback after three 429 answers
C14_Witness ==
    /\ synth.pc = "done" /\ has_key
    /\ synth.responses = <<"status_429", "status_429", "status_429">>
    /\ Len(synth.out.sections) = 2
    /\ synth.chunks[1] # synth.chunks[2]

\* C15: _parse_response raises on no input, and when no parsing stage
\* succeeds on a non-blank input the result has the synthetic city
\* 'Parse error' whose single need carries the raw text.
C15_ParseNeverRaises ==
    parse.pc = "done" =>
        /\ ~parse.out.raised
        /\ parse.out.stage = "fallback" =>
              \E i \in DOMAIN parse.out.cities :
                  /\ parse.out.cities[i].name = PARSE_ERROR
                  /\ Len(parse.out.cities[i].needs) = 1
                  /\ parse.out.cities[i].needs[1].description = parse.raw

\* ---- what a well-formed assessment is expected to yield --------------
\* the city a name stands for; <<>> for a blank name
Resolved(name) ==
    CASE name = <<"Donetska", " ", "Oblast">> -> <<"Donetsk">>
      [] name = <<"South", " ", "Darfur">>    -> <<"Nyala">>
      [] name = <<" ">>                        -> <<>>
      [] OTHER                                 -> name

Blank(text) == \A i \in DOMAIN text : text[i] = " "

\* the needs of the given cities that resolve to name, those with a
\* description, in input order, as (city index, need index) pairs
KeptOf(given, name) ==
    { <<c, k>> \in (DOMAIN given) \X (1..3) :
        /\ Resolved(given[c].name) = name
        /\ k \in DOMAIN given[c].needs
        /\ ~Blank(given[c].needs[k].description) }

\* d is src without its leading and trailing blanks, and is not empty
StrippedOf(src, d) ==
    \E a, b \in 0..Len(src) :
        /\ a + Len(d) + b = Len(src)
        /\ \A i \in 1..a : src[i] = " "
        /\ \A i \in 1..b : src[Len(src) - b + i] = " "
        /\ SubSeq(src, a + 1, a + Len(d)) = d
        /\ d # <<>>
        /\ d[1] # " "
        /\ d[Len(d)] # " "

\* the severity a given need must come out with: its own level when that
\* is one of the three (whatever its case and padding), high otherwise
ExpectedSeverity(n) ==
    CASE n = S1 -> <<"critical">>
      [] n = S4 -> <<"moderate">>
      [] OTHER  -> <<"high">>

PairBefore(a, b) == a[1] < b[1] \/ (a[1] = b[1] /\ a[2] < b[2])

\* C16: for a well-formed assessment the resulting cities have pairwise
\* different resolved names; every need has a severity among critical,
\* high, moderate and a non-empty description; no city is without needs;
\* the needs of a city are those, with a description, of the input cities
\* resolving to its name, in input order.
C16_MergedCitiesWellFormed ==
    (parse.pc = "done" /\ parse.family = "well_formed") =>
        LET cs == parse.out.cities
            g  == parse.given
        IN
        /\ ~parse.out.raised
        /\ \A i, j \in DOMAIN cs : i # j => cs[i].name # cs[j].name
        /\ \A i \in DOMAIN cs :
              /\ cs[i].name \in {<<"Donetsk">>, <<"Nyala">>}
              /\ cs[i].needs # <<>>
              /\ \A k \in DOMAIN cs[i].needs :
                    /\ cs[i].needs[k].severity \in
                          {<<"critical">>, <<"high">>, <<"moderate">>}
                    /\ cs[i].needs[k].description # <<>>
              /\ Len(cs[i].needs) = Cardinality(KeptOf(g, cs[i].name))
              /\ \A p \in KeptOf(g, cs[i].name) :
                    LET pos == 1 + Cardinality({ q \in KeptOf(g, cs[i].name) :
                                                   PairBefore(q, p) })
                        src == g[p[1]].needs[p[2]].description
                    IN  /\ StrippedOf(src, cs[i].needs[pos].description)
                        /\ cs[i].needs[pos].severity =
                              ExpectedSeverity(g[p[1]].needs[p[2]])
        /\ \A c \in DOMAIN g :
              (Resolved(g[c].name) # <<>> /\ KeptOf(g, Resolved(g[c].name)) # {})
                 => \E i \in DOMAIN cs : cs[i].name = Resolved(g[c].name)

\* two input cities resolving to one name were merged
C16_Witness ==
    /\ parse.pc = "done" /\ parse.family = "well_formed"
    /\ Len(parse.given) = 2
    /\ parse.given[1].name = <<"Donetska", " ", "Oblast">>
    /\ parse.given[2].name = <<"Donetsk">>
    /\ Len(parse.out.cities) = 1
    /\ Len(parse.out.cities[1].needs) = 3

\* the cities of J0
J0_CITIES ==
    << [name |-> <<"Nyala">>,
        needs |-> << [sector |-> <<"Other">>, severity |-> <<"critical">>,
                      description |-> <<"d1">>] >>],
       [name |-> <<"Donetsk">>,
        needs |-> << [sector |-> <<"Other">>, severity |-> <<"high">>,
                      description |-> <<"d2">>],
                     [sector |-> <<"Other">>, severity |-> <<"high">>,
                      description |-> <<"d3">>] >>] >>

\* C17: a valid assessment inside a fenced block, or with prose before or
\* after it, yields the cities of the bare assessment; cut off mid-object it
\* yields the cities truncation repair recovers; in none of these cases the
\* synthetic parse-error city is returned.
C17_ToleratesWrappingAndTruncation ==
    parse.pc = "done" =>
        /\ parse.family = "wrapped" =>
              /\ ~parse.out.raised
              /\ parse.out.cities = J0_CITIES
        /\ parse.family = "truncated" =>
              /\ ~parse.out.raised
              /\ parse.out.stage # "fallback"


\* ======================================================================
\* get_crises_for_country (crisis_query.py)
\* ======================================================================
CACHE_TTL == 3600

\* the files of the cache directory, one per lower-cased country
CacheKeys == {"sudan", "ukraine"}

\* a cache file: absent, unreadable as JSON, or an entry written age
\* seconds ago whose data is an assessment or is missing
CacheEntries ==
    { [kind |-> "absent", age |-> 0], [kind |-> "corrupt", age |-> 0] }
    \cup [kind : {"assessment", "no_data"},
          age : {0, CACHE_TTL - 1, CACHE_TTL}]

\* the country arguments: blank, padded, in another case
CrisisCountries ==
    { <<>>, <<" ">>, <<"Sudan">>, <<" ", "sudan", " ">>, <<"Ukraine">> }

\* _get_cache_path: the file is named after country.lower()
CacheKey(country) == Lower(country)[1]

\* _load_cache: the data of a readable entry younger than the TTL, else None
load_cache(cache, country) ==
    LET e == cache[CacheKey(country)]
    IN  IF e.kind = "assessment" /\ e.age < CACHE_TTL THEN "cached" ELSE "None"

\* the function-level import of line 264: context_engine.py defines
\* _openrouter_generate and _llm_generate, no generate_with_openrouter
ContextEngineNames == {"_openrouter_generate", "_llm_generate", "synthesize_briefing"}

ImportFrom(names, name) == IF name \in names THEN "imported" ELSE "ImportError"

\* one call, up to its return or to the exception that leaves it
GetCrisesForCountry ==
    /\ crisis.pc = "idle"
    /\ \E country \in CrisisCountries :
          LET stripped == Strip(country)
              cached   == IF stripped = <<>> THEN "None"
                          ELSE load_cache(crisis.cache, stripped)
              imported == ImportFrom(ContextEngineNames, "generate_with_openrouter")
          IN  crisis' =
                IF stripped = <<>>
                THEN [crisis EXCEPT !.pc = "done", !.country = country,
                                    !.outcome = "returned", !.value = "empty"]
                ELSE IF cached # "None"
                THEN [crisis EXCEPT !.pc = "done", !.country = country,
                                    !.outcome = "returned", !.value = "cached"]
                ELSE [crisis EXCEPT !.pc = "done", !.country = country,
                                    !.outcome = "raised", !.value = imported]
    /\ UNCHANGED <<merge, chunk, has_key, exists, rows, next_id, started, call, fetched,
                   brief, report, synth, parse, embed>>

InitCrisis ==
    /\ has_key = TRUE
    /\ exists = FALSE
    /\ rows = NoRows
    /\ next_id = 0
    /\ started = 0
    /\ call = [p \in Slots |-> IdleCall]
    /\ fetched = NotFetched
    /\ brief = IdleBrief
    /\ report = IdleReport
    /\ synth = IdleSynth
    /\ parse = IdleParse
    /\ embed = IdleEmbed
    /\ chunk = IdleChunk
    /\ merge = IdleMerge
    /\ crisis \in { [IdleCrisis EXCEPT !.cache = c] :
                    c \in [CacheKeys -> CacheEntries] }

NextCrisis == GetCrisesForCountry

SpecCrisis == InitCrisis /\ [][NextCrisis]_vars

\* C18: get_crises_for_country never raises; for a non-blank country
\* without a fresh cache entry it calls the generation provider and returns
\* an assessment; for a blank country it returns the empty assessment
\* without any external call.
C18_CrisesNeverRaise ==
    crisis.pc = "done" =>
        /\ crisis.outcome = "returned"
        /\ Blank(crisis.country) =>
              (crisis.value = "empty" /\ crisis.provider_calls = 0)
        /\ (~Blank(crisis.country)
              /\ load_cache(crisis.cache, Strip(crisis.country)) = "None") =>
              crisis.provider_calls = 1


\* ======================================================================
\* embed_texts (context_engine.py)
\* ======================================================================
EMBEDDING_DIM == 3072

EMBED_DELAYS_flat == <<30, 30, 30>>

EMBED_DELAYS == <<30, 60, 90>>

\* what one POST to the embeddings endpoint can end in: a status error,
\* a transport error, or a 200 whose body is the embeddings of the inputs
\* ("ok"), fewer items, items in another order, vectors of another
\* dimension, JSON without "data", or not JSON
EmbedKinds ==
    { "ok", "429", "401", "500", "timeout", "short", "reordered",
      "wrong_dim", "no_data", "not_json" }

\* a vector: the text it embeds (0 for none), its length, whether all zeros
ZeroVectors_one(n) == << [of |-> 0, dim |-> EMBEDDING_DIM, zero |-> TRUE] >>

\* [[0.0] * EMBEDDING_DIM for _ in texts]
ZeroVectors(n) == [i \in 1..n |-> [of |-> 0, dim |-> EMBEDDING_DIM, zero |-> TRUE]]

\* resp.json()["data"] of a 200 answer of the given kind to n inputs
EmbedData(kind, n) ==
    CASE kind = "ok" ->
            [i \in 1..n |-> [of |-> i, dim |-> EMBEDDING_DIM, zero |-> FALSE]]
      [] kind = "short" ->
            [i \in 1..(IF n = 0 THEN 0 ELSE n - 1) |->
                [of |-> i, dim |-> EMBEDDING_DIM, zero |-> FALSE]]
      [] kind = "reordered" ->
            [i \in 1..n |-> [of |-> n + 1 - i, dim |-> EMBEDDING_DIM, zero |-> FALSE]]
      [] kind = "wrong_dim" ->
            [i \in 1..n |-> [of |-> i, dim |-> EMBEDDING_DIM \div 2, zero |-> FALSE]]

\* the exception a failed attempt raises
EmbedError(kind) ==
    CASE kind \in {"429", "401", "500"} -> "HTTPStatusError"
      [] kind = "timeout"               -> "TimeoutException"
      [] kind = "no_data"               -> "KeyError"
      [] kind = "not_json"              -> "JSONDecodeError"

\* the call, up to the first POST (lines 728-735)
EmbedTexts ==
    /\ embed.pc = "idle"
    /\ \E n \in 0..MaxTexts :
          embed' = IF ~has_key
                   THEN [embed EXCEPT !.pc = "done", !.n = n,
                                      !.outcome = "returned",
                                      !.vectors = ZeroVectors(n)]
                   ELSE [embed EXCEPT !.pc = "posting", !.n = n]
    /\ UNCHANGED <<merge, chunk, has_key, exists, rows, next_id, started, call, fetched,
                   brief, report, synth, parse, crisis>>

\* the POST of attempt embed.attempt is answered (lines 736-751)
EmbedResponse ==
    /\ embed.pc = "posting"
    /\ \E kind \in EmbedKinds :
          LET e == [embed EXCEPT !.sent = @ + 1, !.responses = Append(@, kind)]
          IN  embed' =
                IF kind \in {"ok", "short", "reordered", "wrong_dim"}
                THEN [e EXCEPT !.pc = "done", !.outcome = "returned",
                               !.vectors = EmbedData(kind, embed.n)]
                ELSE IF kind = "429" /\ embed.attempt < Len(EMBED_DELAYS) - 1
                THEN [e EXCEPT !.pc = "sleeping",
                               !.slept = Append(@, EMBED_DELAYS[embed.attempt + 1])]
                ELSE [e EXCEPT !.pc = "done", !.outcome = "raised",
                               !.error = EmbedError(kind)]
    /\ UNCHANGED <<merge, chunk, has_key, exists, rows, next_id, started, call, fetched,
                   brief, report, synth, parse, crisis>>

\* asyncio.sleep(delay) is over; continue with the next attempt
EmbedWake ==
    /\ embed.pc = "sleeping"
    /\ embed' = [embed EXCEPT !.pc = "posting", !.attempt = @ + 1]
    /\ UNCHANGED <<merge, chunk, has_key, exists, rows, next_id, started, call, fetched,
                   brief, report, synth, parse, crisis>>

InitEmbed ==
    /\ has_key \in BOOLEAN
    /\ exists = FALSE
    /\ rows = NoRows
    /\ next_id = 0
    /\ started = 0
    /\ call = [p \in Slots |-> IdleCall]
    /\ fetched = NotFetched
    /\ brief = IdleBrief
    /\ RestIdle

NextEmbed == EmbedTexts \/ EmbedResponse \/ EmbedWake

SpecEmbed == InitEmbed /\ [][NextEmbed]_vars

\* the provider answered the last request with the embeddings of the inputs
EmbedAnswered ==
    embed.responses # <<>> /\ embed.responses[Len(embed.responses)] = "ok"

AllRateLimited ==
    embed.responses # <<>>
    /\ \A i \in DOMAIN embed.responses : embed.responses[i] = "429"

\* C20: when every attempt is answered 429, embed_texts stops after its
\* fixed number of attempts and returns a value; no exception leaves it.
C20_RateLimitSurfacedAsValue ==
    (embed.pc = "done" /\ AllRateLimited) =>
        /\ embed.sent = Len(EMBED_DELAYS)
        /\ embed.outcome = "returned"


\* ======================================================================
\* chunk_text as a loop (context_engine.py 683-698)
\* ======================================================================
Max(a, b) == IF a > b THEN a ELSE b

\* tokens[start:end] of a list of N tokens, as the index range [lo, hi)
SliceIndex(i, N) == IF i < 0 THEN Max(N + i, 0) ELSE Min(i, N)

Slice(start, end, N) ==
    LET lo == SliceIndex(start, N)
        hi == SliceIndex(end, N)
    IN  [start |-> lo, end |-> Max(lo, hi)]

\* the (max_tokens, overlap) arguments: overlap below, at and above max_tokens
ChunkConfigs ==
    { c \in [max_tokens : 1..MaxWindow, overlap : 0..(MaxWindow + 1)] :
        c.overlap <= c.max_tokens + 1 }

\* lines 689-692: tokens encoded, chunks = [], start = 0
ChunkText ==
    /\ chunk.pc = "idle"
    /\ \E N \in 0..MaxTokens : \E c \in ChunkConfigs :
          chunk' = [pc |-> "loop", N |-> N, max_tokens |-> c.max_tokens,
                    overlap |-> c.overlap, start |-> 0, windows |-> <<>>,
                    odd |-> FALSE]
    /\ UNCHANGED <<merge, has_key, exists, rows, next_id, started, call, fetched,
                   brief, report, synth, parse, crisis, embed>>

\* one iteration of the while loop (lines 693-697).  Below -(N + max_tokens)
\* every slice is empty, so start is followed no further down; the list
\* chunks is recorded up to N + 1 windows; odd tells whether the number of
\* iterations run so far is odd.
ChunkStep ==
    /\ chunk.pc = "loop"
    /\ chunk.start < chunk.N
    /\ chunk' = [chunk EXCEPT
          !.windows = IF Len(@) <= chunk.N
                      THEN Append(@, Slice(chunk.start,
                                           chunk.start + chunk.max_tokens,
                                           chunk.N))
                      ELSE @,
          !.start = Max(chunk.start + (chunk.max_tokens - chunk.overlap),
                        -(chunk.N + chunk.max_tokens)),
          !.odd = ~@]
    /\ UNCHANGED <<merge, has_key, exists, rows, next_id, started, call, fetched,
                   brief, report, synth, parse, crisis, embed>>

\* the loop condition is false: return chunks (line 698)
ChunkReturn ==
    /\ chunk.pc = "loop"
    /\ chunk.start >= chunk.N
    /\ chunk' = [chunk EXCEPT !.pc = "done"]
    /\ UNCHANGED <<merge, has_key, exists, rows, next_id, started, call, fetched,
                   brief, report, synth, parse, crisis, embed>>

InitChunk ==
    /\ has_key = TRUE
    /\ exists = FALSE
    /\ rows = NoRows
    /\ next_id = 0
    /\ started = 0
    /\ call = [p \in Slots |-> IdleCall]
    /\ fetched = NotFetched
    /\ brief = IdleBrief
    /\ RestIdle

NextChunk == ChunkText \/ ChunkStep \/ ChunkReturn

SpecChunk == InitChunk /\ [][NextChunk]_vars

\* the loop runs whenever it can
SpecChunkLive == SpecChunk /\ WF_vars(NextChunk)

\* C21: chunk_text terminates for every input: a call that entered the
\* function leaves it, whether overlap is below max_tokens or not.
C21_ChunkTextTerminates == (chunk.pc = "loop") ~> (chunk.pc = "done")


\* ceil(a / b) for b > 0
CeilDiv(a, b) == (a + b - 1) \div b

\* C22: for a text of N tokens with N > overlap and 0 <= overlap <
\* max_tokens, chunk_text returns exactly
\* ceil((N - overlap) / (max_tokens - overlap)) windows; for an empty text
\* it returns no window.
C22_WindowCount ==
    chunk.pc = "done" =>
        /\ (chunk.N > chunk.overlap /\ chunk.overlap < chunk.max_tokens) =>
              Len(chunk.windows) =
                  CeilDiv(chunk.N - chunk.overlap,
                          chunk.max_tokens - chunk.overlap)
        /\ chunk.N = 0 => chunk.windows = <<>>

WindowLen(w) == w.end - w.start

\* C23: for 0 <= overlap < max_tokens the k-th window is the slice
\* [k*s, min(k*s + max_tokens, N)) with s = max_tokens - overlap; only the
\* last window is shorter than max_tokens; every token lies in some window;
\* the last overlap tokens of a window are the first overlap tokens of the
\* next.
C23_WindowsCoverWithOverlap ==
    (chunk.pc = "done" /\ chunk.overlap < chunk.max_tokens) =>
        LET w == chunk.windows
            s == chunk.max_tokens - chunk.overlap
        IN
        /\ \A k \in DOMAIN w :
              /\ w[k].start = (k - 1) * s
              /\ w[k].end = Min((k - 1) * s + chunk.max_tokens, chunk.N)
              /\ WindowLen(w[k]) <= chunk.max_tokens
        /\ \A k \in DOMAIN w : k < Len(w) => WindowLen(w[k]) = chunk.max_tokens
        /\ \A i \in 0..(chunk.N - 1) :
              \E k \in DOMAIN w : w[k].start <= i /\ i < w[k].end
        /\ \A k \in DOMAIN w : k < Len(w) =>
              /\ WindowLen(w[k + 1]) >= chunk.overlap
              /\ w[k].end - chunk.overlap = w[k + 1].start


FinalAttempt(r) == IF r[1] # "status_429" THEN 1 ELSE IF r[2] # "status_429" THEN 2 ELSE 3

\* C25: _openrouter_generate never raises; it makes at most 3 provider
\* calls, retries only on 429, sleeping 5 s and then 15 s; it returns None
\* on any other error, on a third 429 and without a key (no call made), and
\* the content of the first successful answer otherwise.
C25_GenerateNeverRaises ==
    synth.pc = "done" =>
        /\ ~synth.raised
        /\ ~has_key => (synth.sent = 0 /\ synth.generated = "None")
        /\ has_key =>
              LET f == FinalAttempt(synth.responses)
                  k == synth.responses[f]
              IN  /\ synth.sent = f
                  /\ synth.slept = SubSeq(<<5, 15>>, 1, f - 1)
                  /\ synth.generated =
                        CASE k = "text"  -> "text"
                          [] k = "empty" -> ""
                          [] OTHER       -> "None"

\* a 429, then a transport error on the retry
C25_Witness ==
    /\ synth.pc = "done"
    /\ has_key
    /\ synth.responses[1] = "status_429"
    /\ synth.responses[2] = "transport"
    /\ synth.generated = "None"
    /\ synth.sent = 2


\* the search results of the requested country with a non-empty content,
\* in similarity order
Qualifying(b) ==
    SelectSeq(b.results,
              LAMBDA r : r.country = b.country /\ r.content # EmptyText)

\* C26: get_safety_brief searches with width min(total, 200) and returns
\* the first top_k qualifying results in the store's order, skipping none
\* and scanning no further; on an empty collection it makes no embedding
\* and no search call.
C26_FirstTopKQualifying ==
    brief.pc = "done" =>
        /\ Has(brief.log, "search") =>
              LET q == Qualifying(brief)
              IN  /\ Len(brief.results) = Min(brief.total, 200)
                  /\ brief.contents =
                        [i \in 1..Min(brief.top_k, Len(q)) |-> q[i].content]
        /\ (Has(brief.log, "count") /\ Count(rows) = 0) =>
              (~Has(brief.log, "embed_text") /\ ~Has(brief.log, "search"))


\* ======================================================================
\* the chunk list of get_safety_report (context_engine.py 1258-1293)
\* ======================================================================
PROMPT_CHUNKS == 15

\* a result list of n items of one source
Items(src, n) == [i \in 1..n |-> [src |-> src, i |-> i]]

\* s[:n]
Take(s, n) == SubSeq(s, 1, Min(Len(s), n))

\* lines 1258-1263
CityChunks(city_news, nearby) ==
    Take(city_news, ReportSlice("fetch_city_news"))
    \o Take(nearby, ReportSlice("fetch_gdacs_nearby"))

\* line 1265
CountryNewsChunks(country_news) == Take(country_news, ReportSlice("fetch_news"))

\* line 1268: combined
RagChunks_ragfirst(city_news, nearby, country_news, rag) ==
    rag \o CityChunks(city_news, nearby) \o CountryNewsChunks(country_news)

RagChunks(city_news, nearby, country_news, rag) ==
    CityChunks(city_news, nearby) \o CountryNewsChunks(country_news) \o rag

\* lines 1282-1293: chunks of the fallback tier
LiveChunks(city_news, nearby, country_news, state, gdacs, hdx, hapi) ==
    CityChunks(city_news, nearby)
    \o CountryNewsChunks(country_news)
    \o Take(state, ReportSlice("fetch_travel_advisory"))
    \o Take(gdacs, ReportSlice("fetch_gdacs_alerts"))
    \o Take(hdx, ReportSlice("fetch_hdx_reports"))
    \o Take(hapi, ReportSlice("fetch_hapi_data"))

\* synthesize_briefing, line 1116: chunks[:15]
PromptChunks(chunks) == Take(chunks, PROMPT_CHUNKS)

\* lengths of a connector result: empty, shorter and longer than its slice
ListSizes == {0, 2, MaxItems}

\* what get_safety_brief(top_k=5) can return in number
RagSizes == {0, 1, 5}

MergeSources ==
    <<"fetch_city_news", "fetch_gdacs_nearby", "fetch_news",
      "fetch_travel_advisory", "fetch_gdacs_alerts", "fetch_hdx_reports",
      "fetch_hapi_data">>

\* lines 1258-1305 on the results of retrieval and of the connectors; the
\* four country connectors are fetched only when retrieval was empty
MergeChunks ==
    /\ merge.pc = "idle"
    /\ \E rag \in RagSizes : \E sizes \in [1..7 -> ListSizes] :
          /\ rag > 0 => \A i \in 4..7 : sizes[i] = 0
          /\ LET l == [i \in 1..7 |-> Items(MergeSources[i], sizes[i])]
                 chunks == IF rag > 0
                           THEN RagChunks(l[1], l[2], l[3], Items("rag", rag))
                           ELSE LiveChunks(l[1], l[2], l[3], l[4], l[5],
                                           l[6], l[7])
             IN  merge' = [pc |-> "done", rag |-> rag, sizes |-> sizes,
                           called |-> chunks # <<>>,
                           passed |-> chunks,
                           prompt |-> IF chunks # <<>>
                                      THEN PromptChunks(chunks) ELSE <<>>]
    /\ UNCHANGED <<has_key, exists, rows, next_id, started, call, fetched,
                   brief, report, synth, parse, crisis, embed, chunk>>

InitMerge ==
    /\ has_key = TRUE
    /\ exists = FALSE
    /\ rows = NoRows
    /\ next_id = 0
    /\ started = 0
    /\ call = [p \in Slots |-> IdleCall]
    /\ fetched = NotFetched
    /\ brief = IdleBrief
    /\ RestIdle

NextMerge == MergeChunks

SpecMerge == InitMerge /\ [][NextMerge]_vars

\* the place of a source in the claimed order
SourceRank(src) ==
    CASE src = "fetch_city_news"       -> 1
      [] src = "fetch_gdacs_nearby"    -> 2
      [] src = "fetch_news"            -> 3
      [] src = "rag"                   -> 4
      [] src = "fetch_travel_advisory" -> 4
      [] src = "fetch_gdacs_alerts"    -> 5
      [] src = "fetch_hdx_reports"     -> 6
      [] src = "fetch_hapi_data"       -> 7

LocationScoped(c) == c.src \in {"fetch_city_news", "fetch_gdacs_nearby"}

\* C27: in the chunk list handed to synthesize_briefing the city news (at
\* most 5) come first, then the nearby alerts (at most 3), then country
\* news, then the retrieved chunks or, in the fallback tier, travel
\* advisory, GDACS, HDX and HAPI items; all location-scoped chunks are among
\* the first 15 chunks, which are those of the prompt.
C27_LocationChunksFirst ==
    (merge.pc = "done" /\ merge.called) =>
        LET p == merge.passed IN
        /\ \A i, j \in DOMAIN p : i < j =>
              \/ SourceRank(p[i].src) < SourceRank(p[j].src)
              \/ p[i].src = p[j].src /\ p[i].i < p[j].i
        /\ Cardinality({ i \in DOMAIN p : p[i].src = "fetch_city_news" }) <= 5
        /\ Cardinality({ i \in DOMAIN p : p[i].src = "fetch_gdacs_nearby" }) <= 3
        /\ \A i \in DOMAIN p : p[i].src = "rag" => merge.rag > 0
        /\ \A i \in DOMAIN p : SourceRank(p[i].src) >= 4 =>
              (p[i].src = "rag" <=> merge.rag > 0)
        /\ \A i \in DOMAIN p : LocationScoped(p[i]) =>
              /\ i <= 8
              /\ i \in DOMAIN merge.prompt
              /\ merge.prompt[i] = p[i]

\* eight location-scoped chunks in a list longer than the prompt takes
C27_Witness ==
    /\ merge.pc = "done"
    /\ Len(merge.passed) > 15
    /\ Len(merge.prompt) = 15
    /\ LocationScoped(merge.passed[8])


\* C28: get_crises_for_country writes nothing but a proper assessment to
\* its cache; it returns a cache entry exactly while the entry is younger
\* than 3600 s, without calling the provider; an entry of 3600 s or more is
\* ignored and the assessment is recomputed by the provider.
C28_CacheFreshOnly ==
    (crisis.pc = "done" /\ ~Blank(crisis.country)) =>
        LET e == crisis.cache[CacheKey(Strip(crisis.country))] IN
        /\ crisis.cache_writes > 0 => crisis.value = "assessment"
        /\ crisis.value = "cached" =>
              (e.kind = "assessment" /\ e.age < 3600
               /\ crisis.provider_calls = 0)
        /\ (e.kind = "assessment" /\ e.age < 3600) =>
              (crisis.outcome = "returned" /\ crisis.value = "cached")
        /\ (e.kind = "assessment" /\ e.age >= 3600) =>
              (crisis.outcome = "returned" /\ crisis.provider_calls = 1)


\* C29: when the first batch_upsert of an ingest_intelligence call failed
\* and the retry ran, no record stored before the call is left: the
\* collection holds exactly the n records of the call under ids 0..n-1 if
\* the retry succeeded, and nothing if it failed, and then the call
\* returned 0.
C29_RecoveryReplacesCollection ==
    \A p \in Slots :
        LET c == call[p]
            n == Len(c.texts)
        IN  (c.pc = "done" /\ Recovered(c) /\ Len(c.upserts) = 2) =>
               IF c.upserts[2].ok
               THEN /\ DOMAIN rows = 0 .. (n - 1)
                    /\ \A i \in DOMAIN rows :
                          /\ rows[i].country = c.country
                          /\ rows[i].content = c.texts[i + 1]
                          /\ rows[i].content.call = c.seqno
                    /\ c.result = n
               ELSE /\ rows = NoRows
                    /\ c.result = 0

\* records of another country were in the collection when the call began,
\* its first batch_upsert failed and its retry wrote the new records
C29_Witness ==
    \E p \in Slots :
        /\ call[p].pc = "done"
        /\ \E i \in DOMAIN call[p].pre : call[p].pre[i].country # call[p].country
        /\ Len(call[p].upserts) = 2
        /\ ~call[p].upserts[1].ok
        /\ call[p].upserts[2].ok
        /\ Count(rows) = Len(call[p].texts)


\* ---------------------------------------------------------------------------
\* The lifetime of the vector-store client: ingest_country calls and one
\* get_safety_brief call on the same store
\* ---------------------------------------------------------------------------

ClientCalls == 1     \* ingest_country calls made around the retrieval

NextClient ==
    \/ \E p \in Slots :
          \/ Quiet /\ IngestCountry(p, ClientCalls, Countries)
          \/ IngestGathered(p)
          \/ IngestEmbedded(p)
    \/ GetSafetyBriefFor(Countries, {MaxTopK})
    \/ BriefEmbedded

SpecClient == Init /\ [][NextClient]_vars

\* number of client.__exit__ calls in a log
Closes(l) == Cardinality({ i \in DOMAIN l : l[i] = "close" })

\* _get_cortex_client returned a client: the function went on after it
ClientOpened(l) ==
    \E i \in DOMAIN l : l[i] = "get_cortex_client" /\ i < Len(l)

ClientClosedOnce(l) ==
    IF ClientOpened(l)
    THEN /\ Closes(l) = 1
         /\ l[Len(l)] = "close"
    ELSE /\ Closes(l) = 0
         /\ \A i \in DOMAIN l : l[i] \notin {"embed_texts", "embed_text"}

====
